---- MODULE Spec2Model ----
(***************************************************************************)
(* Data-fill codec of pylabview (LVdatafill.py): the DataFill classes, the *)
(* factory functions and their binary transcoding, as a state machine over *)
(* one data-fill tree, its byte reader, its XML element and the last       *)
(* results returned.                                                       *)
(***************************************************************************)
EXTENDS Integers, Sequences, FiniteSets, TLC

VARIABLES
    ver,       \* vi.getFileVersion(): <<major, minor, bugfix, stage>>
    df,        \* the data-fill tree under the caller's hands
    bldata,    \* the bytes the last initWithRSRC was given, up to where it stopped
    startPos,  \* bldata.tell() when the last initWithRSRC began
    reader,    \* [pos, eof]: bldata.tell() now, and whether a read met the end
    last,      \* the call made last on df, what it returned and the tree before it
    bound,     \* the child setTD calls the last setTD on df made
    elem       \* the XML element last exported or decoded

vars == <<ver, df, bldata, startPos, reader, last, bound, elem>>

(***************************************************************************)
(* Bounds of the model.                                                    *)
(***************************************************************************)
\* Bits of one modelled byte: TLC integers are 32 bits wide, so the 8-byte
\* values of the format are kept as 8 bytes of ByteBits bits each.
ByteBits == 2
\* po.array_data_limit, the configured ceiling of array / repeated-block items.
array_data_limit == 6
\* Length of the filler that follows the leading words of an input stream.
TailLen == 14
\* po.typedesc_list_limit, the configured ceiling of the levels of a
\* class-instance refnum.
typedesc_list_limit == 2

Radix == 2 ^ ByteBits
Byte == 0 .. (Radix - 1)

\* Python's None in an integer-valued attribute (index, tm_flags, td, size).
None == -1

Min(a, b) == IF a < b THEN a ELSE b

(***************************************************************************)
(* Bytes and integers: BytesIO.read, int.from_bytes, int.to_bytes.         *)
(***************************************************************************)
\* bldata.read(n) at position p: at most n bytes, fewer at the end of data.
Read(data, p, n) == SubSeq(data, p + 1, Min(p + n, Len(data)))
\* bldata.tell() after bldata.read(n) at position p.
Tell(data, p, n) == IF p >= Len(data) THEN p ELSE Min(p + n, Len(data))

RECURSIVE FromBytesU(_)
\* int.from_bytes(b, byteorder='big', signed=False)
FromBytesU(b) ==
    IF b = <<>> THEN 0
    ELSE FromBytesU(SubSeq(b, 1, Len(b) - 1)) * Radix + b[Len(b)]

\* int.from_bytes(b, byteorder='big', signed=signed)
FromBytes(b, signed) ==
    IF signed /\ b # <<>> /\ 2 * FromBytesU(b) >= Radix ^ Len(b)
    THEN FromBytesU(b) - Radix ^ Len(b)
    ELSE FromBytesU(b)

RECURSIVE ToBytesU(_, _)
\* the n low-order bytes of u >= 0, big-endian
ToBytesU(u, n) ==
    IF n = 0 THEN <<>>
    ELSE Append(ToBytesU(u \div Radix, n - 1), u % Radix)

\* whether int.to_bytes(n, signed=signed) accepts v (OverflowError otherwise)
FitsBytes(v, n, signed) ==
    IF signed THEN (-(Radix ^ n) <= 2 * v) /\ (2 * v < Radix ^ n)
    ELSE (0 <= v) /\ (v < Radix ^ n)

\* int(v).to_bytes(n, byteorder='big', signed=signed), for a v that fits
ToBytes(v, n, signed) ==
    ToBytesU(IF v < 0 THEN v + Radix ^ n ELSE v, n)

\* the top bit of a 4-byte word, 0x80000000, and the mask 0x7fffffff
WordTop == (Radix ^ 4) \div 2
Mask7fffffff(v) == v % WordTop

(***************************************************************************)
(* File versions: vi.getFileVersion() and the comparisons of LVmisc.       *)
(***************************************************************************)
RECURSIVE VerCmpGE(_, _, _)
VerCmpGE(v, thr, i) ==
    IF i > Len(thr) THEN TRUE
    ELSE IF v[i] > thr[i] THEN TRUE
    ELSE IF v[i] < thr[i] THEN FALSE
    ELSE VerCmpGE(v, thr, i + 1)

\* isGreaterOrEqVersion(ver, major, minor, bugfix[, stage]): thr holds the
\* parts the caller gives; parts it leaves out are not compared.
isGreaterOrEqVersion(v, thr) == VerCmpGE(v, thr, 1)
isSmallerVersion(v, thr) == ~isGreaterOrEqVersion(v, thr)

(***************************************************************************)
(* Values held by a node: None, an int, bytes, or a list of child nodes.   *)
(***************************************************************************)
VNone == [t |-> "none", i |-> 0, b |-> <<>>, l |-> <<>>]
VInt(n) == [t |-> "int", i |-> n, b |-> <<>>, l |-> <<>>]
VBytes(s) == [t |-> "bytes", i |-> 0, b |-> s, l |-> <<>>]
VList(s) == [t |-> "list", i |-> 0, b |-> <<>>, l |-> s]
\* a list of byte strings (DataFillUDClassInst.value)
VStrs(s) == [t |-> "strs", i |-> 0, b |-> <<>>, l |-> s]
\* a list of two numbers or Nones (DataFillComplexFixedPt.value and .vflags)
VPair(re, im) == [t |-> "pair", i |-> 0, b |-> <<>>, l |-> <<re, im>>]

(***************************************************************************)
(* The type descriptor graph (LVdatatype, consumed through td.fullType(),  *)
(* td.clientsEnumerate(), td.dimensions, td.numRepeats, td.blkSize,        *)
(* td.refType()).  A descriptor is named by its index in the type list.    *)
(***************************************************************************)
TDObject(type, clients, ndims, numRepeats, blkSize, rt) ==
    [type |-> type, clients |-> clients, ndims |-> ndims,
     numRepeats |-> numRepeats, blkSize |-> blkSize, refType |-> rt,
     dtFlavor |-> "None", allocOv |-> FALSE]

TDLeaf(type) == TDObject(type, <<>>, 0, 0, 0, "None")

\* A measure-data descriptor of the given flavor; it has no clients.
TDMeasureData(flavor) == [TDLeaf("MeasureData") EXCEPT !.dtFlavor = flavor]

\* A fixed-point descriptor, with td.allocOv set or not.
TDFixed(type, allocOv) == [TDLeaf(type) EXCEPT !.allocOv = allocOv]

\* The descriptors of the modelled file.
TDs ==
    << TDLeaf("NumInt8"),                                        \*  1
       TDLeaf("NumInt16"),                                       \*  2
       TDLeaf("NumInt32"),                                       \*  3
       TDLeaf("NumInt64"),                                       \*  4
       TDLeaf("NumUInt8"),                                       \*  5
       TDLeaf("NumUInt16"),                                      \*  6
       TDLeaf("NumUInt32"),                                      \*  7
       TDLeaf("NumUInt64"),                                      \*  8
       TDLeaf("Boolean"),                                        \*  9
       TDLeaf("BooleanU16"),                                     \* 10
       TDLeaf("String"),                                         \* 11
       TDObject("Block", <<>>, 0, 0, 2, "None"),                 \* 12
       TDObject("Block", <<>>, 0, 0, 3, "None"),                 \* 13
       TDObject("Array", <<6>>, 2, 0, 0, "None"),                \* 14
       TDObject("Array", <<11>>, 1, 0, 0, "None"),               \* 15
       TDObject("Array", <<5>>, 0, 0, 0, "None"),                \* 16
       TDObject("Cluster", <<2, 11, 12>>, 0, 0, 0, "None"),      \* 17
       TDObject("Cluster", <<6, 5>>, 0, 0, 0, "None"),           \* 18
       TDObject("RepeatedBlock", <<5>>, 0, 3, 0, "None"),        \* 19
       TDObject("RepeatedBlock", <<9>>, 0, array_data_limit, 0, "None"),     \* 20
       TDObject("RepeatedBlock", <<5>>, 0, array_data_limit + 1, 0, "None"), \* 21
       TDObject("TypeDef", <<2>>, 0, 0, 0, "None"),              \* 22
       TDObject("Refnum", <<>>, 0, 0, 0, "UsrDefndTag"),         \* 23
       TDObject("Refnum", <<>>, 0, 0, 0, "UsrDefTagFlt"),        \* 24
       TDObject("Cluster", <<1, 2, 5, 6, 3, 7, 9, 10>>, 0, 0, 0, "None"),  \* 25
       TDObject("Cluster", <<5, 6, 2>>, 0, 0, 0, "None"),        \* 26
       TDObject("Array", <<18>>, 1, 0, 0, "None"),               \* 27
       TDObject("Cluster", <<13, 16>>, 0, 0, 0, "None"),         \* 28
       TDObject("Array", <<>>, 1, 0, 0, "None"),                 \* 29
       TDLeaf("Ptr"),                                            \* 30
       TDObject("Cluster", <<30, 5>>, 0, 0, 0, "None"),          \* 31
       TDMeasureData("TimeStamp"),                               \* 32
       TDMeasureData("Int16Waveform"),                           \* 33
       TDMeasureData("Unrecognized"),                            \* 34
       \* descriptors that DataFillMeasureData.initVersion makes, outside the
       \* type list of the file:
       TDObject("Block", <<>>, 0, 0, 16, "None"),                \* 35
       TDLeaf("NumInt16"),                                       \* 36
       TDObject("Array", <<36>>, 1, 0, 0, "None"),               \* 37
       TDObject("Cluster", <<35, 37>>, 0, 0, 0, "None"),         \* 38
       TDObject("Cluster", <<32, 5>>, 0, 0, 0, "None"),          \* 39
       TDObject("Refnum", <<>>, 0, 0, 0, "IVIRef"),              \* 40
       TDObject("Refnum", <<>>, 0, 0, 0, "Imaq"),                \* 41
       TDObject("Refnum", <<>>, 0, 0, 0, "UsrDefined"),          \* 42
       TDObject("Refnum", <<>>, 0, 0, 0, "UDClassInst"),         \* 43
       TDObject("Refnum", <<>>, 0, 0, 0, "Generic"),             \* 44
       \* descriptors of the types of others, for binding again:
       TDLeaf("NumUInt16"),                                      \* 45
       TDObject("Array", <<45>>, 2, 0, 0, "None"),               \* 46
       TDObject("Cluster", <<45, 5>>, 0, 0, 0, "None"),          \* 47
       TDObject("Cluster", <<45, 5, 2>>, 0, 0, 0, "None"),       \* 48
       TDObject("Cluster", <<45>>, 0, 0, 0, "None"),             \* 49
       TDObject("Cluster", <<5, 45>>, 0, 0, 0, "None"),          \* 50
       TDObject("TypeDef", <<36>>, 0, 0, 0, "None"),             \* 51
       TDObject("RepeatedBlock", <<1>>, 0, 3, 0, "None"),        \* 52
       TDObject("RepeatedBlock", <<>>, 0, 3, 0, "None"),         \* 53
       TDObject("Array", <<47>>, 1, 0, 0, "None"),               \* 54
       TDObject("Array", <<48>>, 1, 0, 0, "None"),               \* 55
       \* composites over an array, whose fill fails for large extents:
       TDObject("Cluster", <<5, 14, 5>>, 0, 0, 0, "None"),       \* 56
       TDObject("TypeDef", <<14>>, 0, 0, 0, "None"),             \* 57
       TDObject("RepeatedBlock", <<14>>, 0, 2, 0, "None"),       \* 58
       TDObject("Array", <<14>>, 1, 0, 0, "None"),               \* 59
       TDObject("Refnum", <<>>, 0, 0, 0, "VisaRef"),             \* 60
       TDLeaf("Void"),                                           \* 61
       TDLeaf("AlignmntMarker"),                                 \* 62
       TDLeaf("VoidBlock"),                                      \* 63
       TDLeaf("SubString"),                                      \* 64
       TDLeaf("SubArray"),                                       \* 65
       TDLeaf("Function"),                                       \* 66
       TDLeaf("PolyVI"),                                         \* 67
       TDLeaf("ExtData"),                                        \* 68
       TDLeaf("Path"),                                           \* 69
       TDFixed("FixedPoint", FALSE),                             \* 70
       TDFixed("FixedPoint", TRUE),                              \* 71
       TDFixed("ComplexFixedPt", FALSE),                         \* 72
       TDFixed("ComplexFixedPt", TRUE),                          \* 73
       TDObject("Cluster", <<9, 10>>, 0, 0, 0, "None") >>        \* 74

TDIds == 1 .. Len(TDs)

\* td.fullType()
fullType(td) == TDs[td].type
\* td.refType()
refType(td) == TDs[td].refType
\* td.dtFlavor()
dtFlavor(td) == TDs[td].dtFlavor

\* td.clientsEnumerate(): one (cli_idx, td_idx, sub_td) per client, in client
\* order; cli_idx counts from 0, td_idx is the client's index in the type list.
clientsEnumerate(td) ==
    [k \in 1 .. Len(TDs[td].clients) |->
        [cli_idx |-> k - 1, td_idx |-> TDs[td].clients[k], sub_td |-> TDs[td].clients[k]]]

\* The loops "for cli_idx, td_idx, td_obj, td_flags in td.clientsEnumerate():
\* sub_td = td_obj; sub_td_idx = td_idx" leave the last client behind.
lastClient(td) == clientsEnumerate(td)[Len(TDs[td].clients)]

(***************************************************************************)
(* DataFill objects.                                                       *)
(***************************************************************************)
\* DataFill.__init__
DataFill(cls, tdType, tdSubType) ==
    [cls |-> cls, tdType |-> tdType, tdSubType |-> tdSubType,
     index |-> -1, tm_flags |-> None, td |-> None, value |-> VNone,
     size |-> None, signed |-> FALSE, dimensions |-> <<>>,
     usrdef1 |-> VNone, usrdef2 |-> VNone, usrdef3 |-> VNone, usrdef4 |-> VNone,
     containedTd |-> None, libName |-> <<>>, vflags |-> VNone]

IntTypes == {"NumInt8", "NumInt16", "NumInt32", "NumInt64",
             "NumUInt8", "NumUInt16", "NumUInt32", "NumUInt64",
             "UnitUInt8", "UnitUInt16", "UnitUInt32"}

\* DataFillInt.__init__: self.size by type tag
DataFillInt_size(tdType) ==
    CASE tdType \in {"NumInt8", "NumUInt8", "UnitUInt8"} -> 1
      [] tdType \in {"NumInt16", "NumUInt16", "UnitUInt16"} -> 2
      [] tdType \in {"NumInt32", "NumUInt32", "UnitUInt32"} -> 4
      [] tdType \in {"NumInt64", "NumUInt64"} -> 8

\* DataFillInt.__init__: self.signed by type tag
DataFillInt_signed(tdType) ==
    tdType \in {"NumInt8", "NumInt16", "NumInt32", "NumInt64"}

\* newDataFillRefnum: the class for a refnum kind
newDataFillRefnum_ctor(rt) ==
    CASE rt \in {"IVIRef", "VisaRef", "Imaq"} -> "DataFillIORefnum"
      [] rt \in {"UsrDefTagFlt", "UsrDefndTag"} -> "DataFillUDTagRefnum"
      [] rt = "UsrDefined" -> "DataFillUDRefnum"
      [] rt = "UDClassInst" -> "DataFillUDClassInst"
      [] OTHER -> "DataFillSimpleRefnum"

\* newDataFillObject: the class for a type tag ("" when the tag has none)
newDataFillObject_ctor(tdType, tdSubType) ==
    CASE tdType \in {"Void", "VoidBlock", "AlignmntMarker"} -> "DataFillVoid"
      [] tdType \in IntTypes -> "DataFillInt"
      [] tdType \in {"NumFloat32", "NumFloat64", "NumFloatExt",
                     "UnitFloat32", "UnitFloat64", "UnitFloatExt"} -> "DataFillFloat"
      [] tdType \in {"NumComplex64", "NumComplex128", "NumComplexExt", "UnitComplex64",
                     "UnitComplex128", "UnitComplexExt"} -> "DataFillComplex"
      [] tdType = "Path" -> "DataFillPath"
      [] tdType \in {"CString", "PasString"} -> "DataFillCString"
      [] tdType = "ArrayDataPtr" -> "DataFillArrayDataPtr"
      [] tdType = "LVVariant" -> "DataFillLVVariant"
      [] tdType = "MeasureData" -> "DataFillMeasureData"
      [] tdType = "ComplexFixedPt" -> "DataFillComplexFixedPt"
      [] tdType = "FixedPoint" -> "DataFillFixedPoint"
      [] tdType = "Ptr" -> "DataFillPtr"
      [] tdType = "PtrTo" -> "DataFillPtrTo"
      [] tdType = "ExtData" -> "DataFillExtData"
      [] tdType \in {"BooleanU16", "Boolean"} -> "DataFillBool"
      [] tdType \in {"String", "Picture", "Tag"} -> "DataFillString"
      [] tdType \in {"Array", "ArrayInterfc"} -> "DataFillArray"
      [] tdType = "Cluster" -> "DataFillCluster"
      [] tdType \in {"Block", "AlignedBlock"} -> "DataFillBlock"
      [] tdType \in {"TypeBlock", "TypeDef"} -> "DataFillTypeDef"
      [] tdType = "RepeatedBlock" -> "DataFillRepeatedBlock"
      [] tdType = "Refnum" -> newDataFillRefnum_ctor(tdSubType)
      [] tdType \in {"SubString", "SubArray", "Function", "PolyVI"} -> "DataFillUnexpected"
      [] OTHER -> ""

\* The constructor of each class, after DataFill.__init__.
Construct(cls, tdType, tdSubType) ==
    CASE cls = "DataFillInt" ->
            [DataFill(cls, tdType, tdSubType) EXCEPT
                !.size = DataFillInt_size(tdType),
                !.signed = DataFillInt_signed(tdType)]
      [] cls \in {"DataFillArray", "DataFillCluster", "SpecialDSTMCluster",
                  "DataFillRepeatedBlock", "DataFillTypeDef"} ->
            [DataFill(cls, tdType, tdSubType) EXCEPT !.value = VList(<<>>)]
      [] cls = "DataFillUDClassInst" ->
            [DataFill(cls, tdType, tdSubType) EXCEPT !.value = VStrs(<<>>), !.libName = <<>>]
      [] cls = "DataFillComplexFixedPt" ->
            [DataFill(cls, tdType, tdSubType) EXCEPT !.value = VPair(VNone, VNone),
                                                     !.vflags = VPair(VNone, VNone)]
      [] OTHER -> DataFill(cls, tdType, tdSubType)

\* newDataFillObject(vi, tdType, tdSubType, po)
newDataFillObject(tdType, tdSubType) ==
    Construct(newDataFillObject_ctor(tdType, tdSubType), tdType, tdSubType)

(***************************************************************************)
(* Binding: setTD.  A call returns the node as the call leaves it, the     *)
(* exception it raised ("" when none) and the child setTD calls it made.   *)
(***************************************************************************)
HasBit(flags, bit) == (flags \div bit) % 2 = 1

\* DataFill.isSpecialDSTMClusterElement(idx, tm_flags)
isSpecialDSTMClusterElement(idx, tm_flags) ==
    IF HasBit(tm_flags, 4)
    THEN IF isSmallerVersion(ver, <<10, 0, 0, 2>>) THEN idx = 2 ELSE idx = 1
    ELSE IF HasBit(tm_flags, 16) THEN idx \in {1, 2, 3}
    ELSE IF HasBit(tm_flags, 32) THEN idx = 3
    ELSE IF HasBit(tm_flags, 64) THEN idx = 2
    ELSE FALSE

\* setTD without its type check
setTD_mismatch_unchecked(self, td) == FALSE

\* DataFill.setTD, line 74: the type check
setTD_mismatch(self, td) == self.tdType # fullType(td)

\* DataFill.setTD
DataFill_setTD(self, td, idx, tm_flags) ==
    IF setTD_mismatch(self, td)
    THEN [df |-> self, exc |-> "RuntimeError", calls |-> <<>>]
    ELSE [df |-> [self EXCEPT !.index = idx, !.td = td, !.tm_flags = tm_flags],
          exc |-> "", calls |-> <<>>]

\* One child setTD call planned by a composite: child k (from 1) of
\* self.value is bound to descriptor td with index idx.
Call(k, td, idx) == [k |-> k, td |-> td, idx |-> idx]

\* DataFillArray.setTD / DataFillTypeDef.setTD, after the early return: every
\* child to the last client, index -1
Array_setTD_plan(self) ==
    [k \in 1 .. Len(self.value.l) |-> Call(k, lastClient(self.td).sub_td, -1)]

\* DataFillRepeatedBlock.setTD: every child to the last client, with its index
RepeatedBlock_setTD_plan(self) ==
    [k \in 1 .. Len(self.value.l) |->
        Call(k, lastClient(self.td).sub_td, lastClient(self.td).td_idx)]

\* DataFillCluster.setTD with index -1 for every child, as an array has it
Cluster_setTD_plan_arraylike(self) ==
    [k \in 1 .. Len(TDs[self.td].clients) |->
        Call(clientsEnumerate(self.td)[k].cli_idx + 1,
             clientsEnumerate(self.td)[k].sub_td, -1)]

\* DataFillCluster.setTD: self.value[cli_idx] to client cli_idx, for every client
Cluster_setTD_plan(self) ==
    [k \in 1 .. Len(TDs[self.td].clients) |->
        Call(clientsEnumerate(self.td)[k].cli_idx + 1,
             clientsEnumerate(self.td)[k].sub_td,
             clientsEnumerate(self.td)[k].td_idx)]

RECURSIVE SpecialDSTMCluster_setTD_loop(_, _, _, _, _)
\* SpecialDSTMCluster.setTD, lines 1528-1538: the loop over the clients from
\* client j on, with the loop's cli_idx and skipNextEntry
SpecialDSTMCluster_setTD_loop(cl, j, cli_idx, skipNextEntry, tm_flags) ==
    IF j > Len(cl) THEN <<>>
    ELSE IF ~isSpecialDSTMClusterElement(cli_idx, tm_flags)
    THEN SpecialDSTMCluster_setTD_loop(cl, j + 1, cli_idx, skipNextEntry, tm_flags)
    ELSE IF skipNextEntry
    THEN SpecialDSTMCluster_setTD_loop(cl, j + 1, cli_idx, FALSE, tm_flags)
    ELSE <<Call(cli_idx + 1, cl[j].sub_td, cl[j].td_idx)>> \o
         SpecialDSTMCluster_setTD_loop(cl, j + 1, cli_idx + 1, FALSE, tm_flags)

SpecialDSTMCluster_setTD_plan(self) ==
    SpecialDSTMCluster_setTD_loop(clientsEnumerate(self.td), 1, 0,
                                  HasBit(self.tm_flags, 512), self.tm_flags)

\* The child setTD calls a composite makes once DataFill.setTD has bound it
\* and its value list is not empty.
setTD_plan(self) ==
    CASE self.cls = "SpecialDSTMCluster" -> SpecialDSTMCluster_setTD_plan(self)
      [] self.cls = "DataFillCluster" -> Cluster_setTD_plan(self)
      [] self.cls = "DataFillRepeatedBlock" -> RepeatedBlock_setTD_plan(self)
      [] OTHER -> Array_setTD_plan(self)

RECURSIVE setTD(_, _, _, _)
RECURSIVE setTD_children(_, _, _, _)

\* One child setTD call: r is what sub_df.setTD(...) returned for child
\* plan[j].k; the child is left as the call left it, an exception ends the loop.
setTD_child(self, plan, j, tm_flags, r) ==
    IF r.exc # ""
    THEN [df |-> [self EXCEPT !.value.l[plan[j].k] = r.df], exc |-> r.exc,
          calls |-> SubSeq(plan, 1, j)]
    ELSE setTD_children([self EXCEPT !.value.l[plan[j].k] = r.df], plan, j + 1, tm_flags)

\* The child setTD calls of a plan, from call j on, in order; the first
\* exception ends them.  self.value[k] past the end is an IndexError.
setTD_children(self, plan, j, tm_flags) ==
    IF j > Len(plan) THEN [df |-> self, exc |-> "", calls |-> plan]
    ELSE IF plan[j].k > Len(self.value.l)
    THEN [df |-> self, exc |-> "IndexError", calls |-> SubSeq(plan, 1, j - 1)]
    ELSE setTD_child(self, plan, j, tm_flags,
                     setTD(self.value.l[plan[j].k], plan[j].td, plan[j].idx, tm_flags))

\* The setTD of the composite classes after super().setTD(td, idx, tm_flags)
\* has bound the node s.
setTD_subclass(s) ==
    IF s.cls \notin {"DataFillArray", "DataFillTypeDef", "DataFillCluster",
                     "DataFillRepeatedBlock", "SpecialDSTMCluster"}
    THEN [df |-> s, exc |-> "", calls |-> <<>>]
    ELSE IF Len(s.value.l) < 1 THEN [df |-> s, exc |-> "", calls |-> <<>>]
    ELSE IF s.cls \in {"DataFillArray", "DataFillTypeDef", "DataFillRepeatedBlock"}
            /\ Len(TDs[s.td].clients) = 0
    THEN [df |-> s, exc |-> "UnboundLocalError", calls |-> <<>>]
    ELSE setTD_children(s, setTD_plan(s), 1, s.tm_flags)

\* setTD(td, idx, tm_flags) of every class
setTD(self, td, idx, tm_flags) ==
    IF setTD_mismatch(self, td)
    THEN DataFill_setTD(self, td, idx, tm_flags)
    ELSE setTD_subclass(DataFill_setTD(self, td, idx, tm_flags).df)

\* newDataFillObjectWithTD, lines 1664-1670: the subtype of the new node
tdSubTypeOf(td) ==
    IF fullType(td) = "MeasureData" THEN dtFlavor(td)
    ELSE IF fullType(td) = "Refnum" THEN refType(td)
    ELSE "None"

\* the new node bound with the flag word 0, whatever the caller passed
newDataFillObjectWithTD_noflags(idx, tm_flags, td) ==
    IF newDataFillObject_ctor(fullType(td), tdSubTypeOf(td)) = ""
    THEN [df |-> DataFill("", fullType(td), tdSubTypeOf(td)), exc |-> "NameError",
          calls |-> <<>>]
    ELSE DataFill_setTD(newDataFillObject(fullType(td), tdSubTypeOf(td)), td, idx, 0)

\* newDataFillObjectWithTD(vi, idx, tm_flags, td, po).  The new node's value
\* list is empty, so the setTD of every class ends after DataFill.setTD
\* (the early returns of lines 491, 604, 976, 1465).
newDataFillObjectWithTD(idx, tm_flags, td) ==
    IF newDataFillObject_ctor(fullType(td), tdSubTypeOf(td)) = ""
    THEN [df |-> DataFill("", fullType(td), tdSubTypeOf(td)), exc |-> "NameError",
          calls |-> <<>>]
    ELSE DataFill_setTD(newDataFillObject(fullType(td), tdSubTypeOf(td)), td, idx, tm_flags)

\* newSpecialDSTMClusterWithTD(vi, idx, tm_flags, td, po); the early return
\* of line 1526 ends the new node's setTD after DataFill.setTD.
newSpecialDSTMClusterWithTD(idx, tm_flags, td) ==
    DataFill_setTD(Construct("SpecialDSTMCluster", fullType(td), "None"), td, idx, tm_flags)

(***************************************************************************)
(* Binary decode: initWithRSRC / initWithRSRCParse.  The reader is         *)
(* [pos, eof]: bldata.tell(), and whether a read met the end of the data.  *)
(* A call returns the node as the call leaves it, the reader, and the      *)
(* exception raised ("" when none) with its message (the type names the    *)
(* enclosing composites put in front, outermost first).                    *)
(***************************************************************************)
Rd(p) == [pos |-> p, eof |-> FALSE]
\* the reader after bldata.read(n)
RdAdv(data, rd, n) ==
    [pos |-> Tell(data, rd.pos, n), eof |-> rd.eof \/ (Len(data) - rd.pos < n)]
\* int.from_bytes(bldata.read(4), byteorder='big', signed=False)
RdWord(data, rd) == FromBytesU(Read(data, rd.pos, 4))

\* What a call that reads no bytes returns: the node and the exception.
Filled(self) == [df |-> self, exc |-> ""]
Failed(self, e) == [df |-> self, exc |-> e]

Done(self, rd) == [df |-> self, rd |-> rd, exc |-> "", msg |-> <<>>]
Raise(self, rd, e, msg) == [df |-> self, rd |-> rd, exc |-> e, msg |-> msg]

\* the integer read as unsigned whatever the type
DataFillInt_initWithRSRCParse_unsigned(self, data, rd) ==
    Done([self EXCEPT !.value = VInt(FromBytes(Read(data, rd.pos, self.size), FALSE))],
         RdAdv(data, rd, self.size))

\* DataFillInt.initWithRSRCParse
DataFillInt_initWithRSRCParse(self, data, rd) ==
    Done([self EXCEPT !.value = VInt(FromBytes(Read(data, rd.pos, self.size), self.signed))],
         RdAdv(data, rd, self.size))

\* initVersion with the two sizes of the plain boolean exchanged
DataFillBool_initVersion_exchanged(self) ==
    IF self.tdType = "BooleanU16" THEN 2
    ELSE IF isGreaterOrEqVersion(ver, <<4, 5, 0>>) THEN 2 ELSE 1

\* DataFillBool.initVersion: the size by type tag and file version
DataFillBool_initVersion(self) ==
    IF self.tdType = "BooleanU16" THEN 2
    ELSE IF isGreaterOrEqVersion(ver, <<4, 5, 0>>) THEN 1 ELSE 2

\* DataFillBool.initWithRSRCParse, line 356, once initVersion has set the size
DataFillBool_read(self, data, rd) ==
    Done([self EXCEPT !.value = VInt(FromBytes(Read(data, rd.pos, self.size), FALSE))],
         RdAdv(data, rd, self.size))

\* DataFillBool.initWithRSRCParse
DataFillBool_initWithRSRCParse(self, data, rd) ==
    IF self.tdType \notin {"BooleanU16", "Boolean"}
    THEN Raise(self, rd, "RuntimeError", <<"unexpected type">>)
    ELSE DataFillBool_read([self EXCEPT !.size = DataFillBool_initVersion(self)], data, rd)

\* strlen = int.from_bytes(bldata.read(4), ...); bldata.read(strlen): the
\* bytes read, and the reader afterwards
RdStr(data, rd) == Read(data, RdAdv(data, rd, 4).pos, RdWord(data, rd))
RdStrAdv(data, rd) == RdAdv(data, RdAdv(data, rd, 4), RdWord(data, rd))

\* DataFillString.initWithRSRCParse
DataFillString_initWithRSRCParse(self, data, rd) ==
    Done([self EXCEPT !.value = VBytes(RdStr(data, rd))], RdStrAdv(data, rd))

\* DataFillBlock.initWithRSRCParse
DataFillBlock_initWithRSRCParse(self, data, rd) ==
    Done([self EXCEPT !.value = VBytes(Read(data, rd.pos, TDs[self.td].blkSize))],
         RdAdv(data, rd, TDs[self.td].blkSize))

\* Whether the file version is in the window that stores the padding byte of
\* a user-defined tag refnum (lines 1206, 1223, 1239).
UDTagRefnum_hasPadding ==
    isGreaterOrEqVersion(ver, <<12, 0, 0, 2>>) /\ isSmallerVersion(ver, <<12, 0, 0, 5>>)

\* DataFillUDTagRefnum.initWithRSRCParse, lines 1214-1215: usrdef3, usrdef4
DataFillUDTagRefnum_usrdef34(self, data, rd) ==
    Done([self EXCEPT !.usrdef3 = VInt(RdWord(data, rd)),
                      !.usrdef4 = VBytes(RdStr(data, RdAdv(data, rd, 4)))],
         RdStrAdv(data, RdAdv(data, rd, 4)))

\* lines 1211-1212: usrdef2
DataFillUDTagRefnum_usrdef2(self, data, rd) ==
    DataFillUDTagRefnum_usrdef34([self EXCEPT !.usrdef2 = VBytes(RdStr(data, rd))],
                                 data, RdStrAdv(data, rd))

\* lines 1208-1210: the fields of a UsrDefTagFlt refnum, from usrdef1 on
DataFillUDTagRefnum_usrdef(self, data, rd) ==
    IF refType(self.td) = "UsrDefTagFlt"
    THEN DataFillUDTagRefnum_usrdef2([self EXCEPT !.usrdef1 = VBytes(RdStr(data, rd))],
                                     data, RdStrAdv(data, rd))
    ELSE Done(self, rd)

\* lines 1206-1207: the padding byte is read and dropped
DataFillUDTagRefnum_padding(self, data, rd) ==
    DataFillUDTagRefnum_usrdef(self, data,
                               IF UDTagRefnum_hasPadding THEN RdAdv(data, rd, 1) ELSE rd)

\* DataFillUDTagRefnum.initWithRSRCParse
DataFillUDTagRefnum_initWithRSRCParse(self, data, rd) ==
    DataFillUDTagRefnum_padding(
        [self EXCEPT !.usrdef1 = VNone, !.usrdef2 = VNone, !.usrdef3 = VNone,
                     !.usrdef4 = VNone, !.value = VBytes(RdStr(data, rd))],
        data, RdStrAdv(data, rd))

\* DataFillSimpleRefnum.initWithRSRCParse, DataFillUDRefnum.initWithRSRCParse
DataFillSimpleRefnum_initWithRSRCParse(self, data, rd) ==
    Done([self EXCEPT !.value = VInt(RdWord(data, rd))], RdAdv(data, rd, 4))

\* DataFill.isRefnumTag(td)
isRefnumTag(td) == refType(td) \in {"IVIRef", "VisaRef", "UsrDefTagFlt", "UsrDefndTag"}

\* DataFillIORefnum, lines 1089-1090, 1101-1102, 1114-1115: the value is a string
DataFillIORefnum_isString_anyversion(self) == isRefnumTag(self.td)

\* DataFillIORefnum, lines 1089-1090 and 1101-1102: the value is a string
DataFillIORefnum_isString(self) ==
    isGreaterOrEqVersion(ver, <<6, 0, 0>>) /\ isRefnumTag(self.td)

\* DataFillIORefnum.initWithRSRCParse
DataFillIORefnum_initWithRSRCParse(self, data, rd) ==
    IF self.td = None /\ isGreaterOrEqVersion(ver, <<6, 0, 0>>)
    THEN Raise(self, rd, "AttributeError", <<>>)
    ELSE IF DataFillIORefnum_isString(self)
    THEN Done([self EXCEPT !.value = VBytes(RdStr(data, rd))], RdStrAdv(data, rd))
    ELSE Done([self EXCEPT !.value = VInt(RdWord(data, rd))], RdAdv(data, rd, 4))

UDClassInst_overLimit_inclusive(numLevels) == numLevels >= typedesc_list_limit

\* line 1301: numLevels > self.po.typedesc_list_limit
UDClassInst_overLimit(numLevels) == numLevels > typedesc_list_limit

RECURSIVE UDClassInst_levels(_, _, _, _)
\* lines 1304-1307: the version strings, one per level
UDClassInst_levels(self, data, rd, n) ==
    IF n = 0 THEN Done(self, rd)
    ELSE UDClassInst_levels([self EXCEPT !.value.l = Append(self.value.l, RdStr(data, rd))],
                            data, RdStrAdv(data, rd), n - 1)

\* lines 1301-1307, with the reader behind the padding
UDClassInst_checked(self, data, rd, numLevels) ==
    IF UDClassInst_overLimit(numLevels)
    THEN Raise(self, rd, "RuntimeError", <<"claims to contain">>)
    ELSE UDClassInst_levels(self, data, rd, numLevels)

\* lines 1299-1300: the padding bytes up to a position that 4 divides
UDClassInst_padding(self, data, rd, numLevels) ==
    UDClassInst_checked(self, data,
                        IF rd.pos % 4 > 0 THEN RdAdv(data, rd, 4 - (rd.pos % 4)) ELSE rd,
                        numLevels)

\* lines 1297-1298: the library name behind its length byte
UDClassInst_libName(self, data, rd, numLevels) ==
    UDClassInst_padding(
        [self EXCEPT !.libName = Read(data, RdAdv(data, rd, 1).pos,
                                      FromBytesU(Read(data, rd.pos, 1)))],
        data, RdAdv(data, RdAdv(data, rd, 1), FromBytesU(Read(data, rd.pos, 1))),
        numLevels)

\* DataFillUDClassInst.initWithRSRCParse
DataFillUDClassInst_initWithRSRCParse(self, data, rd) ==
    UDClassInst_libName([self EXCEPT !.value = VStrs(<<>>)], data, RdAdv(data, rd, 4),
                        RdWord(data, rd))

\* the handle kept up to 8.6.0.0 only
DataFillPtr_hasValue_860 == isSmallerVersion(ver, <<8, 6, 0>>)

\* DataFillPtr, lines 1368, 1376, 1383: isSmallerVersion(ver, 8,6,0,1)
DataFillPtr_hasValue == isSmallerVersion(ver, <<8, 6, 0, 1>>)

\* DataFillPtr.initWithRSRCParse
DataFillPtr_initWithRSRCParse(self, data, rd) ==
    IF DataFillPtr_hasValue
    THEN Done([self EXCEPT !.value = VInt(RdWord(data, rd))], RdAdv(data, rd, 4))
    ELSE Done([self EXCEPT !.value = VNone], rd)

RECURSIVE totItems_unmasked(_)
\* the product of the extents as they are stored, top bit and all
totItems_unmasked(dimensions) ==
    IF dimensions = <<>> THEN 1
    ELSE dimensions[1] * totItems_unmasked(Tail(dimensions))

RECURSIVE totItems(_)
\* DataFillArray.initWithRSRCParse, lines 507-510: the product of the extents
\* with the top bit masked off
totItems(dimensions) ==
    IF dimensions = <<>> THEN 1
    ELSE Mask7fffffff(dimensions[1]) * totItems(Tail(dimensions))

\* the limit check with >= for >
Array_overLimit_inclusive(n) == n >= array_data_limit

\* line 517: totItems > self.po.array_data_limit
Array_overLimit(n) == n > array_data_limit
\* line 990: self.td.numRepeats > self.po.array_data_limit
RepeatedBlock_overLimit(n) == n > array_data_limit

RECURSIVE ReadDims(_, _, _)
\* lines 501-503: one 4-byte extent per dimension of the descriptor
ReadDims(data, rd, n) ==
    IF n = 0 THEN <<>>
    ELSE <<RdWord(data, rd)>> \o ReadDims(data, RdAdv(data, rd, 4), n - 1)

RECURSIVE RdAdvWords(_, _, _)
\* the reader after those extents
RdAdvWords(data, rd, n) ==
    IF n = 0 THEN rd ELSE RdAdvWords(data, RdAdv(data, rd, 4), n - 1)

RECURSIVE SpecialDSTMCluster_parse_loop_noskip(_, _, _, _)
\* the loop without the skip of the first qualifying client
SpecialDSTMCluster_parse_loop_noskip(cl, j, skipNextEntry, tm_flags) ==
    IF j > Len(cl) THEN <<>>
    ELSE IF ~isSpecialDSTMClusterElement(cl[j].cli_idx, tm_flags)
    THEN SpecialDSTMCluster_parse_loop_noskip(cl, j + 1, skipNextEntry, tm_flags)
    ELSE <<cl[j]>> \o SpecialDSTMCluster_parse_loop_noskip(cl, j + 1, FALSE, tm_flags)

RECURSIVE SpecialDSTMCluster_parse_loop(_, _, _, _)
\* SpecialDSTMCluster.initWithRSRCParse, lines 1543-1549: the clients that get
\* a data-fill entry, from client j on, with the loop's skipNextEntry
SpecialDSTMCluster_parse_loop(cl, j, skipNextEntry, tm_flags) ==
    IF j > Len(cl) THEN <<>>
    ELSE IF ~isSpecialDSTMClusterElement(cl[j].cli_idx, tm_flags)
    THEN SpecialDSTMCluster_parse_loop(cl, j + 1, skipNextEntry, tm_flags)
    ELSE IF skipNextEntry
    THEN SpecialDSTMCluster_parse_loop(cl, j + 1, FALSE, tm_flags)
    ELSE <<cl[j]>> \o SpecialDSTMCluster_parse_loop(cl, j + 1, FALSE, tm_flags)

\* One planned child of a composite: its descriptor and its index.
Entry(td, idx) == [td |-> td, idx |-> idx]

\* n children of the last client
Repeat_plan(td, n, idx) == [i \in 1 .. n |-> Entry(lastClient(td).sub_td, idx)]

\* one child per listed client, each with index -1 as in a type-def
Clients_plan_noindex(cl) == [i \in 1 .. Len(cl) |-> Entry(cl[i].sub_td, -1)]

\* one child per listed client
Clients_plan(cl) == [i \in 1 .. Len(cl) |-> Entry(cl[i].sub_td, cl[i].td_idx)]

\* DataFillTypeDef: one child per client, index -1
TypeDef_plan(td) ==
    [i \in 1 .. Len(TDs[td].clients) |-> Entry(clientsEnumerate(td)[i].sub_td, -1)]

\* The message of the exception an except handler raises for the exception
\* (with message msg) of a child of descriptor td: the child's type name and
\* the child's message; the handler of line 1482 names an undefined variable
\* client instead, and the NameError of that has neither.
WrapMsg(wrap, td, msg) ==
    IF wrap = "NameError" THEN <<"name 'client' is not defined">>
    ELSE <<fullType(td)>> \o msg

RECURSIVE initWithRSRC(_, _, _)
RECURSIVE ParseChildren(_, _, _, _, _, _)

\* sub_df.initWithRSRC(bldata) has returned r for the child appended to
\* self.value: an exception of the child is raised again as `wrap`.
ParseChild_parsed(self, plan, j, data, wrap, r) ==
    IF r.exc # ""
    THEN Raise([self EXCEPT !.value.l = Append(self.value.l, r.df)], r.rd, wrap,
               WrapMsg(wrap, plan[j].td, r.msg))
    ELSE ParseChildren([self EXCEPT !.value.l = Append(self.value.l, r.df)],
                       plan, j + 1, data, r.rd, wrap)

\* newDataFillObjectWithTD(...) has returned n: an exception of it is raised
\* again as `wrap` before anything is appended.
ParseChild_created(self, plan, j, data, rd, wrap, n) ==
    IF n.exc # ""
    THEN Raise(self, rd, wrap, WrapMsg(wrap, plan[j].td, <<n.exc>>))
    ELSE ParseChild_parsed(self, plan, j, data, wrap, initWithRSRC(n.df, data, rd))

\* The loop body shared by the composites (lines 521-526, 613-618, 994-999,
\* 1477-1482, 1550-1555): for each planned (descriptor, index) from entry j on,
\* create the child, append it to self.value, decode it.
ParseChildren(self, plan, j, data, rd, wrap) ==
    IF j > Len(plan) THEN Done(self, rd)
    ELSE ParseChild_created(self, plan, j, data, rd, wrap,
             newDataFillObjectWithTD(plan[j].idx, self.tm_flags, plan[j].td))

\* DataFillArray.initWithRSRCParse from line 504 on: self.dimensions is read
DataFillArray_fill(self, data, rd) ==
    IF Len(TDs[self.td].clients) < 1
    THEN Raise(self, rd, "RuntimeError", <<"TD used before being initialized">>)
    ELSE IF Array_overLimit(totItems(self.dimensions))
    THEN Raise([self EXCEPT !.value = VList(<<>>)], rd, "RuntimeError",
               <<"claims to contain">>)
    ELSE ParseChildren([self EXCEPT !.value = VList(<<>>)],
                       Repeat_plan(self.td, totItems(self.dimensions),
                                   lastClient(self.td).td_idx),
                       1, data, rd, "RuntimeError")

\* DataFillArray.initWithRSRCParse
DataFillArray_initWithRSRCParse(self, data, rd) ==
    DataFillArray_fill([self EXCEPT !.dimensions = ReadDims(data, rd, TDs[self.td].ndims)],
                       data, RdAdvWords(data, rd, TDs[self.td].ndims))

\* DataFillCluster.initWithRSRCParse
DataFillCluster_initWithRSRCParse(self, data, rd) ==
    ParseChildren([self EXCEPT !.value = VList(<<>>)],
                  Clients_plan(clientsEnumerate(self.td)), 1, data, rd, "RuntimeError")

\* DataFillRepeatedBlock.initWithRSRCParse
DataFillRepeatedBlock_initWithRSRCParse(self, data, rd) ==
    IF RepeatedBlock_overLimit(TDs[self.td].numRepeats)
    THEN Raise([self EXCEPT !.value = VList(<<>>)], rd, "RuntimeError",
               <<"claims to contain">>)
    ELSE IF TDs[self.td].numRepeats > 0 /\ Len(TDs[self.td].clients) < 1
    THEN Raise([self EXCEPT !.value = VList(<<>>)], rd, "UnboundLocalError", <<"sub_td">>)
    ELSE ParseChildren([self EXCEPT !.value = VList(<<>>)],
                       Repeat_plan(self.td, TDs[self.td].numRepeats,
                                   lastClient(self.td).td_idx),
                       1, data, rd, "RuntimeError")

\* DataFillTypeDef.initWithRSRCParse: the handler of line 1482 names an
\* undefined variable, so a child's exception leaves as a NameError
DataFillTypeDef_initWithRSRCParse(self, data, rd) ==
    ParseChildren([self EXCEPT !.value = VList(<<>>)], TypeDef_plan(self.td),
                  1, data, rd, "NameError")

\* SpecialDSTMCluster.initWithRSRCParse
SpecialDSTMCluster_initWithRSRCParse(self, data, rd) ==
    ParseChildren([self EXCEPT !.value = VList(<<>>)],
                  Clients_plan(SpecialDSTMCluster_parse_loop(
                      clientsEnumerate(self.td), 1,
                      HasBit(self.tm_flags, 512), self.tm_flags)),
                  1, data, rd, "RuntimeError")

\* LVdatatype.newTDObject / newAnalogWaveformCluster as initVersion calls
\* them (lines 715-727): the descriptor made for a flavor, None for a flavor
\* initVersion does not list.  Of the waveform cluster the model keeps the
\* time stamp and the array of the inner type.
newContainedTd(flavor) ==
    CASE flavor = "TimeStamp" -> 35
      [] flavor = "Int16Waveform" -> 38
      [] OTHER -> None

\* DataFillMeasureData.initVersion, line 709
DataFillMeasureData_tooOld == isSmallerVersion(ver, <<7, 0, 0, 2>>)

\* DataFillMeasureData.initVersion: the raise of line 710 formats a variable
\* sub_td that the method does not define, so it leaves as a NameError
DataFillMeasureData_initVersion(self) ==
    IF DataFillMeasureData_tooOld THEN Failed(self, "NameError")
    ELSE IF newContainedTd(self.tdSubType) = None THEN Failed(self, "NotImplementedError")
    ELSE Filled([self EXCEPT !.containedTd = newContainedTd(self.tdSubType)])

\* DataFillMeasureData.initWithRSRCParse once self.initVersion() has returned iv
DataFillMeasureData_parse(iv, data, rd) ==
    IF iv.exc = "NameError" THEN Raise(iv.df, rd, iv.exc, <<"name 'sub_td' is not defined">>)
    ELSE IF iv.exc # "" THEN Raise(iv.df, rd, iv.exc, <<"unsupported flavor">>)
    ELSE ParseChildren([iv.df EXCEPT !.value = VList(<<>>)],
                       <<Entry(iv.df.containedTd, -1)>>, 1, data, rd, "RuntimeError")

\* DataFillMeasureData.initWithRSRCParse
DataFillMeasureData_initWithRSRCParse(self, data, rd) ==
    DataFillMeasureData_parse(DataFillMeasureData_initVersion(self), data, rd)

\* DataFillFixedPoint.initWithRSRCParse, lines 901-906
DataFillFixedPoint_initWithRSRCParse(self, data, rd) ==
    IF self.td = None
    THEN Raise([self EXCEPT !.value = VInt(FromBytesU(Read(data, rd.pos, 8)))],
               RdAdv(data, rd, 8), "AttributeError", <<>>)
    ELSE IF TDs[self.td].allocOv
    THEN Done([self EXCEPT !.value = VInt(FromBytesU(Read(data, rd.pos, 8))),
                           !.vflags = VInt(FromBytesU(Read(data, RdAdv(data, rd, 8).pos, 1)))],
              RdAdv(data, RdAdv(data, rd, 8), 1))
    ELSE Done([self EXCEPT !.value = VInt(FromBytesU(Read(data, rd.pos, 8))),
                           !.vflags = VNone],
              RdAdv(data, rd, 8))

RECURSIVE DataFillComplexFixedPt_parts(_, _, _, _)
\* lines 850-853: for i in range(2), from part i on
DataFillComplexFixedPt_parts(self, data, rd, i) ==
    IF i > 2 THEN Done(self, rd)
    ELSE IF self.td = None
    THEN Raise([self EXCEPT !.value.l[i] = VInt(FromBytesU(Read(data, rd.pos, 8)))],
               RdAdv(data, rd, 8), "AttributeError", <<>>)
    ELSE IF TDs[self.td].allocOv
    THEN DataFillComplexFixedPt_parts(
             [self EXCEPT !.value.l[i] = VInt(FromBytesU(Read(data, rd.pos, 8))),
                          !.vflags.l[i] =
                              VInt(FromBytesU(Read(data, RdAdv(data, rd, 8).pos, 1)))],
             data, RdAdv(data, RdAdv(data, rd, 8), 1), i + 1)
    ELSE DataFillComplexFixedPt_parts(
             [self EXCEPT !.value.l[i] = VInt(FromBytesU(Read(data, rd.pos, 8)))],
             data, RdAdv(data, rd, 8), i + 1)

\* DataFillComplexFixedPt.initWithRSRCParse, lines 846-854
DataFillComplexFixedPt_initWithRSRCParse(self, data, rd) ==
    DataFillComplexFixedPt_parts(
        [self EXCEPT !.value = VPair(VNone, VNone), !.vflags = VPair(VNone, VNone)],
        data, rd, 1)

\* The class identifiers b'PTH0', b'PTH1', b'PTH2' of a path value (lines
\* 415-417), in bytes of the model's radix.
PTH0 == <<1, 2, 3, 0>>
PTH1 == <<1, 2, 3, 1>>
PTH2 == <<1, 2, 3, 2>>

\* LVclasses.LVPath0(vi, po) / LVclasses.LVPath1(vi, po): a path object that
\* has parsed nothing yet
LVPath(cls) == [t |-> cls, i |-> None, b |-> <<>>, l |-> <<>>]

\* self.value.parseRSRCData(bldata) of a path object: it reads the class
\* identifier again; value.i keeps the position it started at, value.b the
\* identifier it read
LVPath_parseRSRCData(self, data, rd) ==
    Done([self EXCEPT !.value.i = rd.pos, !.value.b = Read(data, rd.pos, 4)],
         RdAdv(data, rd, 4))

\* the reader left where the read of the identifier put it
DataFillPath_seek_none(rd, pos) == rd

\* line 422: bldata.seek(startPos)
DataFillPath_seek(rd, pos) == [rd EXCEPT !.pos = pos]

\* DataFillPath.initWithRSRCParse, lines 412-423
DataFillPath_initWithRSRCParse(self, data, rd) ==
    IF Read(data, rd.pos, 4) = PTH0
    THEN LVPath_parseRSRCData([self EXCEPT !.value = LVPath("LVPath0")], data,
                              DataFillPath_seek(RdAdv(data, rd, 4), rd.pos))
    ELSE IF Read(data, rd.pos, 4) \in {PTH1, PTH2}
    THEN LVPath_parseRSRCData([self EXCEPT !.value = LVPath("LVPath1")], data,
                              DataFillPath_seek(RdAdv(data, rd, 4), rd.pos))
    ELSE Raise(self, RdAdv(data, rd, 4), "RuntimeError",
               <<"contains path data of unrecognized class">>)

\* a void value that takes one byte of the stream
DataFillVoid_initWithRSRCParse_byte(self, data, rd) ==
    Done([self EXCEPT !.value = VNone], RdAdv(data, rd, 1))

\* DataFillVoid.initWithRSRCParse (lines 146-147) and
\* DataFillUnexpected.initWithRSRCParse (lines 1435-1438): nothing is read
DataFillVoid_initWithRSRCParse(self, data, rd) == Done([self EXCEPT !.value = VNone], rd)

\* DataFillExtData.initWithRSRCParse, lines 1422-1424
DataFillExtData_initWithRSRCParse(self, data, rd) ==
    Raise([self EXCEPT !.value = VNone], rd, "NotImplementedError",
          <<"ExtData default value read is not implemented">>)

\* initWithRSRCParse of a node that no setTD has bound, in the classes whose
\* decode reads self.td: the assignments made before the read stay
initWithRSRCParse_unbound(self, rd) ==
    CASE self.cls = "DataFillArray" ->
            Raise([self EXCEPT !.dimensions = <<>>], rd, "AttributeError", <<>>)
      [] self.cls \in {"DataFillCluster", "DataFillRepeatedBlock", "DataFillTypeDef"} ->
            Raise([self EXCEPT !.value = VList(<<>>)], rd, "AttributeError", <<>>)
      [] OTHER -> Raise(self, rd, "AttributeError", <<>>)

\* initWithRSRC(bldata) of every class
initWithRSRC(self, data, rd) ==
    IF self.td = None /\ self.cls \in {"DataFillBlock", "DataFillArray", "DataFillCluster",
                                       "DataFillRepeatedBlock", "DataFillTypeDef"}
    THEN initWithRSRCParse_unbound(self, rd)
    ELSE
    CASE self.cls = "DataFillInt" -> DataFillInt_initWithRSRCParse(self, data, rd)
      [] self.cls = "DataFillBool" -> DataFillBool_initWithRSRCParse(self, data, rd)
      [] self.cls = "DataFillString" -> DataFillString_initWithRSRCParse(self, data, rd)
      [] self.cls = "DataFillBlock" -> DataFillBlock_initWithRSRCParse(self, data, rd)
      [] self.cls = "DataFillPtr" -> DataFillPtr_initWithRSRCParse(self, data, rd)
      [] self.cls = "DataFillMeasureData" -> DataFillMeasureData_initWithRSRCParse(self, data, rd)
      [] self.cls = "DataFillUDTagRefnum" -> DataFillUDTagRefnum_initWithRSRCParse(self, data, rd)
      [] self.cls \in {"DataFillSimpleRefnum", "DataFillUDRefnum"} ->
            DataFillSimpleRefnum_initWithRSRCParse(self, data, rd)
      [] self.cls = "DataFillIORefnum" -> DataFillIORefnum_initWithRSRCParse(self, data, rd)
      [] self.cls = "DataFillUDClassInst" -> DataFillUDClassInst_initWithRSRCParse(self, data, rd)
      [] self.cls = "DataFillArray" -> DataFillArray_initWithRSRCParse(self, data, rd)
      [] self.cls = "DataFillCluster" -> DataFillCluster_initWithRSRCParse(self, data, rd)
      [] self.cls = "DataFillRepeatedBlock" -> DataFillRepeatedBlock_initWithRSRCParse(self, data, rd)
      [] self.cls = "DataFillTypeDef" -> DataFillTypeDef_initWithRSRCParse(self, data, rd)
      [] self.cls = "SpecialDSTMCluster" -> SpecialDSTMCluster_initWithRSRCParse(self, data, rd)
      [] self.cls \in {"DataFillVoid", "DataFillUnexpected"} ->
            DataFillVoid_initWithRSRCParse(self, data, rd)
      [] self.cls = "DataFillExtData" -> DataFillExtData_initWithRSRCParse(self, data, rd)
      [] self.cls = "DataFillPath" -> DataFillPath_initWithRSRCParse(self, data, rd)
      [] self.cls = "DataFillFixedPoint" -> DataFillFixedPoint_initWithRSRCParse(self, data, rd)
      [] self.cls = "DataFillComplexFixedPt" ->
            DataFillComplexFixedPt_initWithRSRCParse(self, data, rd)

(***************************************************************************)
(* Binary encode: prepareRSRCData(avoid_recompute).  A call returns the    *)
(* node as the call leaves it, the bytes returned and the exception.       *)
(***************************************************************************)
Ret(self, buf) == [df |-> self, buf |-> buf, exc |-> ""]
Fail(self, e) == [df |-> self, buf |-> <<>>, exc |-> e]

\* int(value).to_bytes(n, byteorder='big', signed=signed) appended to nothing
IntToBytes(self, value, n, signed) ==
    IF value.t # "int" \/ n = None THEN Fail(self, "TypeError")
    ELSE IF ~FitsBytes(value.i, n, signed) THEN Fail(self, "OverflowError")
    ELSE Ret(self, ToBytes(value.i, n, signed))

\* len(value).to_bytes(4, byteorder='big', signed=False) + value
LenPrefixed(self, value) ==
    IF value.t # "bytes" THEN Fail(self, "TypeError")
    ELSE IF ~FitsBytes(Len(value.b), 4, FALSE) THEN Fail(self, "OverflowError")
    ELSE Ret(self, ToBytes(Len(value.b), 4, FALSE) \o value.b)

\* DataFillInt.prepareRSRCData returning nothing when asked to avoid recomputing
DataFillInt_prepareRSRCData_cached(self, avoid_recompute) ==
    IF avoid_recompute THEN Ret(self, <<>>)
    ELSE IntToBytes(self, self.value, self.size, self.signed)

\* DataFillInt.prepareRSRCData
DataFillInt_prepareRSRCData(self, avoid_recompute) ==
    IntToBytes(self, self.value, self.size, self.signed)

\* DataFillBool.prepareRSRCData
DataFillBool_prepareRSRCData(self, avoid_recompute) ==
    IntToBytes(self, self.value, self.size, FALSE)

\* DataFillString.prepareRSRCData
DataFillString_prepareRSRCData(self, avoid_recompute) ==
    LenPrefixed(self, self.value)

RECURSIVE Zeros(_)
Zeros(n) == IF n <= 0 THEN <<>> ELSE <<0>> \o Zeros(n - 1)

\* lines 943-950 without the cut of line 950
DataFillBlock_fit_padonly(v, blkSize) ==
    IF blkSize - Len(v) > 0 THEN v \o Zeros(blkSize - Len(v)) ELSE v

\* lines 943-950: the value at the block size
DataFillBlock_fit(v, blkSize) ==
    IF Len(v) = blkSize THEN v
    ELSE IF blkSize - Len(v) > 0 THEN v \o Zeros(blkSize - Len(v))
    ELSE SubSeq(v, 1, blkSize)

\* DataFillBlock.prepareRSRCData: a value of another length than td.blkSize
\* is padded with zero bytes or cut, in self.value too
DataFillBlock_prepareRSRCData(self, avoid_recompute) ==
    IF self.value.t # "bytes" THEN Fail(self, "TypeError")
    ELSE IF self.td = None THEN Fail(self, "AttributeError")
    ELSE Ret([self EXCEPT !.value = VBytes(DataFillBlock_fit(self.value.b, TDs[self.td].blkSize))],
             DataFillBlock_fit(self.value.b, TDs[self.td].blkSize))

\* DataFillUDTagRefnum.prepareRSRCData: line 1230 takes len() of the integer
\* usrdef3, a TypeError
DataFillUDTagRefnum_prepareRSRCData(self, avoid_recompute) ==
    IF LenPrefixed(self, self.value).exc # "" THEN LenPrefixed(self, self.value)
    ELSE IF self.td = None THEN Fail(self, "AttributeError")
    ELSE IF refType(self.td) # "UsrDefTagFlt"
    THEN Ret(self, LenPrefixed(self, self.value).buf \o
                   (IF UDTagRefnum_hasPadding THEN <<0>> ELSE <<>>))
    ELSE IF LenPrefixed(self, self.usrdef1).exc # "" THEN LenPrefixed(self, self.usrdef1)
    ELSE IF LenPrefixed(self, self.usrdef2).exc # "" THEN LenPrefixed(self, self.usrdef2)
    ELSE Fail(self, "TypeError")

\* DataFillSimpleRefnum.prepareRSRCData, DataFillUDRefnum.prepareRSRCData
DataFillSimpleRefnum_prepareRSRCData(self, avoid_recompute) ==
    IntToBytes(self, self.value, 4, FALSE)

\* DataFillIORefnum.prepareRSRCData
DataFillIORefnum_prepareRSRCData(self, avoid_recompute) ==
    IF self.td = None /\ isGreaterOrEqVersion(ver, <<6, 0, 0>>) THEN Fail(self, "AttributeError")
    ELSE IF DataFillIORefnum_isString(self) THEN LenPrefixed(self, self.value)
    ELSE IntToBytes(self, self.value, 4, FALSE)

\* LVmisc.preparePStr(s, 4, po): the length byte, the string, and zero bytes
\* up to a length that 4 divides
preparePStr(str) ==
    <<Len(str)>> \o str \o Zeros((4 - ((1 + Len(str)) % 4)) % 4)

RECURSIVE UDClassInst_versions(_)
\* lines 1313-1315: every version string behind its 4-byte length
UDClassInst_versions(value) ==
    IF value = <<>> THEN <<>>
    ELSE ToBytes(Len(value[1]), 4, FALSE) \o value[1] \o UDClassInst_versions(Tail(value))

\* DataFillUDClassInst.prepareRSRCData
DataFillUDClassInst_prepareRSRCData(self, avoid_recompute) ==
    Ret(self, ToBytes(Len(self.value.l), 4, FALSE) \o preparePStr(self.libName)
              \o UDClassInst_versions(self.value.l))

\* DataFillPtr.prepareRSRCData
DataFillPtr_prepareRSRCData(self, avoid_recompute) ==
    IF DataFillPtr_hasValue THEN IntToBytes(self, self.value, 4, FALSE)
    ELSE Ret(self, <<>>)

RECURSIVE WordsToBytes(_)
\* lines 531-532: every extent as 4 bytes
WordsToBytes(ws) ==
    IF ws = <<>> THEN <<>> ELSE ToBytes(ws[1], 4, FALSE) \o WordsToBytes(Tail(ws))

RECURSIVE prepareRSRCData(_, _)
RECURSIVE PrepareChildren(_, _, _, _)

\* data_buf += r, where r is what child j's prepareRSRCData returned
PrepareChild(self, j, avoid_recompute, buf, r) ==
    IF r.exc # "" THEN Fail([self EXCEPT !.value.l[j] = r.df], r.exc)
    ELSE PrepareChildren([self EXCEPT !.value.l[j] = r.df], j + 1, avoid_recompute,
                         buf \o r.buf)

\* for sub_df in self.value: data_buf += sub_df.prepareRSRCData(avoid_recompute)
PrepareChildren(self, j, avoid_recompute, buf) ==
    IF j > Len(self.value.l) THEN Ret(self, buf)
    ELSE PrepareChild(self, j, avoid_recompute, buf,
                      prepareRSRCData(self.value.l[j], avoid_recompute))

\* DataFillArray.prepareRSRCData
DataFillArray_prepareRSRCData(self, avoid_recompute) ==
    PrepareChildren(self, 1, avoid_recompute, WordsToBytes(self.dimensions))

\* DataFillMeasureData.prepareRSRCData: the value of a node never filled is
\* None, which the loop cannot iterate
DataFillMeasureData_prepareRSRCData(self, avoid_recompute) ==
    IF self.value.t # "list" THEN Fail(self, "TypeError")
    ELSE PrepareChildren(self, 1, avoid_recompute, <<>>)

\* The value in 8 bytes and, when td.allocOv is set, the flags in 1 byte
\* (lines 910-912, 859-861)
FixedPoint_bytes(self, value, vflags) ==
    IF IntToBytes(self, value, 8, FALSE).exc # "" THEN IntToBytes(self, value, 8, FALSE)
    ELSE IF self.td = None THEN Fail(self, "AttributeError")
    ELSE IF ~TDs[self.td].allocOv THEN IntToBytes(self, value, 8, FALSE)
    ELSE IF IntToBytes(self, vflags, 1, FALSE).exc # "" THEN IntToBytes(self, vflags, 1, FALSE)
    ELSE Ret(self, ToBytes(value.i, 8, FALSE) \o ToBytes(vflags.i, 1, FALSE))

\* DataFillFixedPoint.prepareRSRCData, lines 908-913
DataFillFixedPoint_prepareRSRCData(self, avoid_recompute) ==
    FixedPoint_bytes(self, self.value, self.vflags)

\* DataFillComplexFixedPt.prepareRSRCData, lines 856-862
DataFillComplexFixedPt_prepareRSRCData(self, avoid_recompute) ==
    IF FixedPoint_bytes(self, self.value.l[1], self.vflags.l[1]).exc # ""
    THEN FixedPoint_bytes(self, self.value.l[1], self.vflags.l[1])
    ELSE IF FixedPoint_bytes(self, self.value.l[2], self.vflags.l[2]).exc # ""
    THEN FixedPoint_bytes(self, self.value.l[2], self.vflags.l[2])
    ELSE Ret(self, FixedPoint_bytes(self, self.value.l[1], self.vflags.l[1]).buf
                   \o FixedPoint_bytes(self, self.value.l[2], self.vflags.l[2]).buf)

\* DataFill.prepareRSRCData (lines 112-118, kept by DataFillExtData),
\* DataFillVoid.prepareRSRCData (lines 149-151) and
\* DataFillUnexpected.prepareRSRCData (lines 1440-1442): no bytes
DataFill_prepareRSRCData(self, avoid_recompute) == Ret(self, <<>>)

\* prepareRSRCData(avoid_recompute) of every class
prepareRSRCData(self, avoid_recompute) ==
    CASE self.cls = "DataFillInt" -> DataFillInt_prepareRSRCData(self, avoid_recompute)
      [] self.cls = "DataFillBool" -> DataFillBool_prepareRSRCData(self, avoid_recompute)
      [] self.cls = "DataFillString" -> DataFillString_prepareRSRCData(self, avoid_recompute)
      [] self.cls = "DataFillBlock" -> DataFillBlock_prepareRSRCData(self, avoid_recompute)
      [] self.cls = "DataFillPtr" -> DataFillPtr_prepareRSRCData(self, avoid_recompute)
      [] self.cls = "DataFillUDTagRefnum" -> DataFillUDTagRefnum_prepareRSRCData(self, avoid_recompute)
      [] self.cls \in {"DataFillSimpleRefnum", "DataFillUDRefnum"} ->
            DataFillSimpleRefnum_prepareRSRCData(self, avoid_recompute)
      [] self.cls = "DataFillIORefnum" -> DataFillIORefnum_prepareRSRCData(self, avoid_recompute)
      [] self.cls = "DataFillUDClassInst" -> DataFillUDClassInst_prepareRSRCData(self, avoid_recompute)
      [] self.cls = "DataFillArray" -> DataFillArray_prepareRSRCData(self, avoid_recompute)
      [] self.cls \in {"DataFillCluster", "DataFillRepeatedBlock", "DataFillTypeDef",
                       "SpecialDSTMCluster"} ->
            PrepareChildren(self, 1, avoid_recompute, <<>>)
      [] self.cls = "DataFillMeasureData" ->
            DataFillMeasureData_prepareRSRCData(self, avoid_recompute)
      [] self.cls \in {"DataFillVoid", "DataFillUnexpected", "DataFillExtData"} ->
            DataFill_prepareRSRCData(self, avoid_recompute)
      [] self.cls = "DataFillFixedPoint" ->
            DataFillFixedPoint_prepareRSRCData(self, avoid_recompute)
      [] self.cls = "DataFillComplexFixedPt" ->
            DataFillComplexFixedPt_prepareRSRCData(self, avoid_recompute)

(***************************************************************************)
(* expectedRSRCSize().  A call returns the size (None when unknown) and    *)
(* the exception raised.                                                   *)
(***************************************************************************)
Size(n) == [n |-> n, exc |-> ""]
SizeFail(e) == [n |-> None, exc |-> e]

\* DataFillInt.expectedRSRCSize
DataFillInt_expectedRSRCSize(self) == Size(self.size)

\* DataFillBool.expectedRSRCSize: 0 + self.size
DataFillBool_expectedRSRCSize(self) ==
    IF self.size = None THEN SizeFail("TypeError") ELSE Size(self.size)

\* DataFillString.expectedRSRCSize
DataFillString_expectedRSRCSize(self) ==
    IF self.value.t # "bytes" THEN SizeFail("TypeError") ELSE Size(4 + Len(self.value.b))

\* DataFillBlock.expectedRSRCSize
DataFillBlock_expectedRSRCSize(self) ==
    IF self.value.t # "bytes" THEN SizeFail("TypeError") ELSE Size(Len(self.value.b))

\* DataFillUDTagRefnum.expectedRSRCSize: line 1241 names REFNUM_TYPE, which
\* this method does not import
DataFillUDTagRefnum_expectedRSRCSize(self) ==
    IF self.value.t # "bytes" THEN SizeFail("TypeError") ELSE SizeFail("NameError")

\* DataFillSimpleRefnum.expectedRSRCSize, DataFillUDRefnum.expectedRSRCSize
DataFillSimpleRefnum_expectedRSRCSize(self) == Size(4)

\* DataFillIORefnum.expectedRSRCSize: line 1116 adds to data_buf, a local
\* name that has no value
DataFillIORefnum_expectedRSRCSize(self) ==
    IF self.td = None /\ isGreaterOrEqVersion(ver, <<6, 0, 0>>) THEN SizeFail("AttributeError")
    ELSE IF DataFillIORefnum_isString(self) THEN SizeFail("UnboundLocalError")
    ELSE Size(4)

\* DataFillUDClassInst.expectedRSRCSize: line 1322 adds to str_len, a local
\* name that has no value
DataFillUDClassInst_expectedRSRCSize(self) == SizeFail("UnboundLocalError")

\* DataFillPtr.expectedRSRCSize
DataFillPtr_expectedRSRCSize(self) == Size(IF DataFillPtr_hasValue THEN 4 ELSE 0)

RECURSIVE expectedRSRCSize(_)
RECURSIVE ExpectedChildren(_, _, _)

\* exp_whole_len += sub_len, where r is what child j's expectedRSRCSize returned
ExpectedChild(self, j, n, r) ==
    IF r.exc # "" THEN r
    ELSE IF r.n = None THEN Size(None)
    ELSE ExpectedChildren(self, j + 1, n + r.n)

\* for sub_df in self.value: the sum of the children's sizes, None on the
\* first child whose size is None
ExpectedChildren(self, j, n) ==
    IF j > Len(self.value.l) THEN Size(n)
    ELSE ExpectedChild(self, j, n, expectedRSRCSize(self.value.l[j]))

\* DataFillArray.expectedRSRCSize
DataFillArray_expectedRSRCSize(self) ==
    ExpectedChildren(self, 1, 4 * Len(self.dimensions))

\* DataFillMeasureData.expectedRSRCSize
DataFillMeasureData_expectedRSRCSize(self) ==
    IF self.value.t # "list" THEN SizeFail("TypeError") ELSE ExpectedChildren(self, 1, 0)

\* DataFillFixedPoint.expectedRSRCSize (lines 915-921) and
\* DataFillComplexFixedPt.expectedRSRCSize (lines 864-870)
DataFillFixedPoint_expectedRSRCSize(self) ==
    IF self.td = None THEN SizeFail("AttributeError")
    ELSE Size((IF self.cls = "DataFillComplexFixedPt" THEN 2 ELSE 1)
              * (IF TDs[self.td].allocOv THEN 9 ELSE 8))

\* DataFillVoid.expectedRSRCSize (lines 153-155): 0; DataFill.expectedRSRCSize
\* (lines 120-122, kept by DataFillExtData) and
\* DataFillUnexpected.expectedRSRCSize (lines 1444-1446): None
DataFillVoid_expectedRSRCSize(self) ==
    IF self.cls = "DataFillVoid" THEN Size(0) ELSE Size(None)

\* expectedRSRCSize() of every class
expectedRSRCSize(self) ==
    CASE self.cls = "DataFillInt" -> DataFillInt_expectedRSRCSize(self)
      [] self.cls = "DataFillBool" -> DataFillBool_expectedRSRCSize(self)
      [] self.cls = "DataFillString" -> DataFillString_expectedRSRCSize(self)
      [] self.cls = "DataFillBlock" -> DataFillBlock_expectedRSRCSize(self)
      [] self.cls = "DataFillPtr" -> DataFillPtr_expectedRSRCSize(self)
      [] self.cls = "DataFillUDTagRefnum" -> DataFillUDTagRefnum_expectedRSRCSize(self)
      [] self.cls \in {"DataFillSimpleRefnum", "DataFillUDRefnum"} ->
            DataFillSimpleRefnum_expectedRSRCSize(self)
      [] self.cls = "DataFillIORefnum" -> DataFillIORefnum_expectedRSRCSize(self)
      [] self.cls = "DataFillUDClassInst" -> DataFillUDClassInst_expectedRSRCSize(self)
      [] self.cls = "DataFillArray" -> DataFillArray_expectedRSRCSize(self)
      [] self.cls \in {"DataFillCluster", "DataFillRepeatedBlock", "DataFillTypeDef",
                       "SpecialDSTMCluster"} ->
            ExpectedChildren(self, 1, 0)
      [] self.cls = "DataFillMeasureData" -> DataFillMeasureData_expectedRSRCSize(self)
      [] self.cls \in {"DataFillVoid", "DataFillUnexpected", "DataFillExtData"} ->
            DataFillVoid_expectedRSRCSize(self)
      [] self.cls \in {"DataFillFixedPoint", "DataFillComplexFixedPt"} ->
            DataFillFixedPoint_expectedRSRCSize(self)

(***************************************************************************)
(* Structured text: initWithXML, initWithXMLLate, exportXML.  An element   *)
(* has a tag, a text (a sequence of characters) and sub-elements.  A call  *)
(* returns the node, or the element, as the call leaves it and the         *)
(* exception raised.                                                       *)
(***************************************************************************)
Element(tag, text, sub) == [tag |-> tag, text |-> text, sub |-> sub, Flags |-> <<"">>]
\* Python's None as the text of an element
NoText == <<"">>
NoElement == Element("", NoText, <<>>)

Digits == <<"0", "1", "2", "3", "4", "5", "6", "7", "8", "9">>
HexDigits == Digits \o <<"a", "b", "c", "d", "e", "f">>

RECURSIVE FormatNat(_)
FormatNat(n) ==
    IF n < 10 THEN <<Digits[n + 1]>>
    ELSE Append(FormatNat(n \div 10), Digits[(n % 10) + 1])

\* "{:d}".format(n)
FormatInt(n) == IF n < 0 THEN <<"-">> \o FormatNat(-n) ELSE FormatNat(n)

\* "{}".format(value) and str(value), of an int or of None
FormatValue(v) == IF v.t = "none" THEN <<"N", "o", "n", "e">> ELSE FormatInt(v.i)

DigitValue(c) == CHOOSE d \in 0 .. 15 : HexDigits[d + 1] = c

IsDigits(t, base) ==
    t # <<>> /\ \A k \in 1 .. Len(t) : \E d \in 1 .. base : HexDigits[d] = t[k]

RECURSIVE ParseNat(_, _)
ParseNat(t, base) ==
    IF t = <<>> THEN 0
    ELSE ParseNat(SubSeq(t, 1, Len(t) - 1), base) * base + DigitValue(t[Len(t)])

\* A decimal literal of int(text, 0): digits without a leading zero, or zeros.
IsDecimal(t) ==
    IsDigits(t, 10) /\ (t[1] # "0" \/ \A k \in 1 .. Len(t) : t[k] = "0")

\* The decimal literals, with a sign or without, that int(text, 0) accepts.
IsInt(t) == t # <<>> /\ IF t[1] = "-" THEN IsDecimal(Tail(t)) ELSE IsDecimal(t)

\* int(text, 0) of such a literal
ParseInt(t) == IF t[1] = "-" THEN -ParseNat(Tail(t), 10) ELSE ParseNat(t, 10)

RECURSIVE Hex(_)
\* value.hex()
Hex(b) ==
    IF b = <<>> THEN <<>>
    ELSE <<HexDigits[(b[1] \div 16) + 1], HexDigits[(b[1] % 16) + 1]>> \o Hex(Tail(b))

RECURSIVE FromHex(_)
\* bytes.fromhex(text) of an even number of hexadecimal digits
FromHex(t) ==
    IF t = <<>> THEN <<>>
    ELSE <<ParseNat(SubSeq(t, 1, 2), 16)>> \o FromHex(SubSeq(t, 3, Len(t)))

\* self.value = int(df_elem.text, 0)
IntFromText(self, t) ==
    IF t = NoText THEN Failed(self, "TypeError")
    ELSE IF ~IsInt(t) THEN Failed(self, "ValueError")
    ELSE Filled([self EXCEPT !.value = VInt(ParseInt(t))])

\* DataFillInt.initWithXML, DataFillBool.initWithXML,
\* DataFillSimpleRefnum.initWithXML, DataFillUDRefnum.initWithXML
DataFillInt_initWithXML(self, df_elem) == IntFromText(self, df_elem.text)

\* DataFillBlock.initWithXML
DataFillBlock_initWithXML(self, df_elem) ==
    IF df_elem.text = NoText THEN Failed(self, "TypeError")
    ELSE IF df_elem.text # <<>> /\ (~IsDigits(df_elem.text, 16) \/ Len(df_elem.text) % 2 = 1)
    THEN Failed(self, "ValueError")
    ELSE Filled([self EXCEPT !.value = VBytes(FromHex(df_elem.text))])

\* DataFillPtr.initWithXML
DataFillPtr_initWithXML(self, df_elem) ==
    IF df_elem.text # <<"N", "o", "n", "e">> THEN IntFromText(self, df_elem.text)
    ELSE Filled([self EXCEPT !.value = VNone])

\* LVdatatype.tdNameToEnum, mdFlavorNameToEnum and LVdatatyperef.refnumNameToEnum:
\* the tag of a measure-data flavor or of a refnum kind names the subtype, any
\* other tag the type ("" for None).
MeasureFlavors == {"TimeStamp", "Int16Waveform", "Unrecognized"}
RefnumKinds == {"IVIRef", "VisaRef", "Imaq", "UsrDefTagFlt", "UsrDefndTag",
                "UsrDefined", "UDClassInst", "Generic"}

tdNameToEnum(tagName) ==
    IF tagName \in MeasureFlavors THEN "MeasureData"
    ELSE IF tagName \in RefnumKinds THEN "Refnum"
    ELSE IF newDataFillObject_ctor(tagName, "None") # "" THEN tagName
    ELSE ""

\* newDataFillObjectWithTag, lines 1686-1691: the subtype for a tag
tagSubType(tagName) ==
    IF tdNameToEnum(tagName) \in {"MeasureData", "Refnum"} THEN tagName ELSE "None"

\* newDataFillObjectWithTag(vi, tagName, po)
newDataFillObjectWithTag(tagName) ==
    IF tdNameToEnum(tagName) = ""
    THEN Failed(DataFill("", "", ""), "AttributeError")
    ELSE Filled(newDataFillObject(tdNameToEnum(tagName), tagSubType(tagName)))

RECURSIVE initWithXML(_, _)
RECURSIVE XMLChildren(_, _, _)

\* sub_df.initWithXML(subelem) has returned r: self.value.append(sub_df)
XMLChild_filled(self, df_elem, j, r) ==
    IF r.exc # "" THEN Failed(self, r.exc)
    ELSE XMLChildren([self EXCEPT !.value.l = Append(self.value.l, r.df)], df_elem, j + 1)

\* newDataFillObjectWithTag(self.vi, subelem.tag, self.po) has returned n
XMLChild_created(self, df_elem, j, n) ==
    IF n.exc # "" THEN Failed(self, n.exc)
    ELSE XMLChild_filled(self, df_elem, j, initWithXML(n.df, df_elem.sub[j]))

\* for i, subelem in enumerate(df_elem), from sub-element j on (lines 549-558,
\* 638-641, 812-815, 1019-1022, 1502-1505); a 'dim' sub-element of an array
\* is an extent
XMLChildren(self, df_elem, j) ==
    IF j > Len(df_elem.sub) THEN Filled(self)
    ELSE IF self.cls = "DataFillArray" /\ df_elem.sub[j].tag = "dim"
    THEN IF ~IsInt(df_elem.sub[j].text)
         THEN Failed(self, IF df_elem.sub[j].text = NoText THEN "TypeError" ELSE "ValueError")
         ELSE XMLChildren([self EXCEPT !.dimensions =
                               Append(self.dimensions, ParseInt(df_elem.sub[j].text))],
                          df_elem, j + 1)
    ELSE XMLChild_created(self, df_elem, j, newDataFillObjectWithTag(df_elem.sub[j].tag))

\* DataFillArray.initWithXML
DataFillArray_initWithXML(self, df_elem) ==
    XMLChildren([self EXCEPT !.dimensions = <<>>, !.value = VList(<<>>)], df_elem, 1)

\* DataFillCluster.initWithXML, DataFillRepeatedBlock.initWithXML,
\* DataFillTypeDef.initWithXML, DataFillMeasureData.initWithXML
DataFillCluster_initWithXML(self, df_elem) ==
    XMLChildren([self EXCEPT !.value = VList(<<>>)], df_elem, 1)

HexUpper == Digits \o <<"A", "B", "C", "D", "E", "F">>

RECURSIVE FormatHex(_)
\* "{:X}".format(n) of n >= 0
FormatHex(n) ==
    IF n < 16 THEN <<HexUpper[n + 1]>>
    ELSE Append(FormatHex(n \div 16), HexUpper[(n % 16) + 1])

\* "0x{:02X}".format(n)
FormatX02(n) ==
    <<"0", "x">> \o (IF n < 0 THEN <<"-">> \o FormatHex(-n)
                     ELSE IF n < 16 THEN <<"0">> \o FormatHex(n)
                     ELSE FormatHex(n))

\* A hexadecimal literal of int(text, 0): 0x or 0X and digits of either case.
IsHexLiteral(t) ==
    /\ Len(t) >= 3
    /\ t[1] = "0"
    /\ t[2] \in {"x", "X"}
    /\ \A k \in 3 .. Len(t) : \E d \in 1 .. 16 : t[k] \in {HexDigits[d], HexUpper[d]}

HexDigitValue(c) == CHOOSE d \in 0 .. 15 : c \in {HexDigits[d + 1], HexUpper[d + 1]}

RECURSIVE ParseHex(_)
ParseHex(t) ==
    IF t = <<>> THEN 0
    ELSE ParseHex(SubSeq(t, 1, Len(t) - 1)) * 16 + HexDigitValue(t[Len(t)])

\* The literals int(text, 0) accepts here, and their values.
IsInt0(t) == IsInt(t) \/ IsHexLiteral(t)
ParseInt0(t) == IF IsHexLiteral(t) THEN ParseHex(SubSeq(t, 3, Len(t))) ELSE ParseInt(t)

\* int(subelem.text, 0) and int(subelem.get("Flags"), 0): the exception ("" when none)
FixedPoint_textExc(e) ==
    IF e.text = NoText THEN "TypeError"
    ELSE IF ~IsInt0(e.text) THEN "ValueError"
    ELSE IF e.Flags # NoText /\ ~IsInt0(e.Flags) THEN "ValueError"
    ELSE ""

\* the flags of lines 925-927, 874-876, 879-881: None without the attribute
FixedPoint_textFlags(e) == IF e.Flags = NoText THEN VNone ELSE VInt(ParseInt0(e.Flags))

\* DataFillFixedPoint.initWithXML, lines 923-930
DataFillFixedPoint_initWithXML(self, df_elem) ==
    IF FixedPoint_textExc(df_elem) # "" THEN Failed(self, FixedPoint_textExc(df_elem))
    ELSE Filled([self EXCEPT !.value = VInt(ParseInt0(df_elem.text)),
                             !.vflags = FixedPoint_textFlags(df_elem)])

\* df_elem.find(tag): the index of the first sub-element of that tag, 0 for None
Find(df_elem, tag) ==
    IF \E k \in 1 .. Len(df_elem.sub) : df_elem.sub[k].tag = tag
    THEN CHOOSE k \in 1 .. Len(df_elem.sub) :
             /\ df_elem.sub[k].tag = tag
             /\ \A j \in 1 .. k - 1 : df_elem.sub[j].tag # tag
    ELSE 0

\* lines 872-883 with the sub-elements found
ComplexFixedPt_fromText(self, re, im) ==
    Filled([self EXCEPT !.value = VPair(VInt(ParseInt0(re.text)), VInt(ParseInt0(im.text))),
                        !.vflags = VPair(FixedPoint_textFlags(re), FixedPoint_textFlags(im))])

\* DataFillComplexFixedPt.initWithXML, lines 872-884
DataFillComplexFixedPt_initWithXML(self, df_elem) ==
    IF Find(df_elem, "real") = 0 THEN Failed(self, "AttributeError")
    ELSE IF FixedPoint_textExc(df_elem.sub[Find(df_elem, "real")]) # ""
    THEN Failed(self, FixedPoint_textExc(df_elem.sub[Find(df_elem, "real")]))
    ELSE IF Find(df_elem, "imag") = 0 THEN Failed(self, "AttributeError")
    ELSE IF FixedPoint_textExc(df_elem.sub[Find(df_elem, "imag")]) # ""
    THEN Failed(self, FixedPoint_textExc(df_elem.sub[Find(df_elem, "imag")]))
    ELSE ComplexFixedPt_fromText(self, df_elem.sub[Find(df_elem, "real")],
                                 df_elem.sub[Find(df_elem, "imag")])

\* DataFillVoid.initWithXML (lines 157-158): nothing;
\* DataFillUnexpected.initWithXML (lines 1448-1452): the value is None;
\* DataFillExtData.initWithXML (lines 1426-1427): not implemented
DataFillVoid_initWithXML(self, df_elem) ==
    CASE self.cls = "DataFillVoid" -> Filled(self)
      [] self.cls = "DataFillUnexpected" -> Filled([self EXCEPT !.value = VNone])
      [] self.cls = "DataFillExtData" -> Failed(self, "NotImplementedError")

\* initWithXML(df_elem) of the classes whose text form is modelled
initWithXML(self, df_elem) ==
    CASE self.cls \in {"DataFillInt", "DataFillBool", "DataFillSimpleRefnum",
                       "DataFillUDRefnum"} -> DataFillInt_initWithXML(self, df_elem)
      [] self.cls = "DataFillBlock" -> DataFillBlock_initWithXML(self, df_elem)
      [] self.cls = "DataFillPtr" -> DataFillPtr_initWithXML(self, df_elem)
      [] self.cls = "DataFillArray" -> DataFillArray_initWithXML(self, df_elem)
      [] self.cls \in {"DataFillCluster", "DataFillRepeatedBlock", "DataFillTypeDef",
                       "DataFillMeasureData", "SpecialDSTMCluster"} ->
            DataFillCluster_initWithXML(self, df_elem)
      [] self.cls \in {"DataFillVoid", "DataFillUnexpected", "DataFillExtData"} ->
            DataFillVoid_initWithXML(self, df_elem)
      [] self.cls = "DataFillFixedPoint" -> DataFillFixedPoint_initWithXML(self, df_elem)
      [] self.cls = "DataFillComplexFixedPt" ->
            DataFillComplexFixedPt_initWithXML(self, df_elem)

RECURSIVE initWithXMLLate(_)
RECURSIVE LateChildren(_, _)

\* sub_df.initWithXMLLate() has returned r for child j
LateChild(self, j, r) ==
    IF r.exc # "" THEN Failed([self EXCEPT !.value.l[j] = r.df], r.exc)
    ELSE LateChildren([self EXCEPT !.value.l[j] = r.df], j + 1)

\* for sub_df in self.value: sub_df.initWithXMLLate()
LateChildren(self, j) ==
    IF j > Len(self.value.l) THEN Filled(self)
    ELSE LateChild(self, j, initWithXMLLate(self.value.l[j]))

\* a late part that leaves the size alone
DataFillBool_initWithXMLLate_nosize(self) == Filled(self)

\* DataFillBool.initWithXMLLate
DataFillBool_initWithXMLLate(self) ==
    IF self.tdType \notin {"BooleanU16", "Boolean"} THEN Failed(self, "RuntimeError")
    ELSE Filled([self EXCEPT !.size = DataFillBool_initVersion(self)])

\* lines 822-823 with only the first child bound
MeasureData_setTD_plan_first(self) ==
    [k \in 1 .. (IF Len(self.value.l) > 0 THEN 1 ELSE 0) |-> Call(k, self.containedTd, -1)]

\* lines 822-823: every child to self.containedTd, index -1
MeasureData_setTD_plan(self) ==
    [k \in 1 .. Len(self.value.l) |-> Call(k, self.containedTd, -1)]

\* lines 824-825, once the loop of lines 822-823 has returned b
DataFillMeasureData_late(b) ==
    IF b.exc # "" THEN Failed(b.df, b.exc) ELSE LateChildren(b.df, 1)

\* lines 821-823, once self.initVersion() has returned iv
DataFillMeasureData_bind(iv) ==
    IF iv.exc # "" THEN iv
    ELSE IF iv.df.value.t # "list" THEN Failed(iv.df, "TypeError")
    ELSE DataFillMeasureData_late(
             setTD_children(iv.df, MeasureData_setTD_plan(iv.df), 1, iv.df.tm_flags))

\* DataFillMeasureData.initWithXMLLate
DataFillMeasureData_initWithXMLLate(self) ==
    DataFillMeasureData_bind(DataFillMeasureData_initVersion(self))

\* initWithXMLLate() of every class
initWithXMLLate(self) ==
    CASE self.cls = "DataFillBool" -> DataFillBool_initWithXMLLate(self)
      [] self.cls \in {"DataFillArray", "DataFillCluster", "DataFillRepeatedBlock",
                       "DataFillTypeDef", "SpecialDSTMCluster"} -> LateChildren(self, 1)
      [] self.cls = "DataFillMeasureData" -> DataFillMeasureData_initWithXMLLate(self)
      [] OTHER -> Filled(self)

\* DataFill.getXMLTagName
getXMLTagName(self) ==
    IF self.cls = "SpecialDSTMCluster" THEN "SpecialDSTMCluster"
    ELSE IF self.tdType \in {"MeasureData", "Refnum"} THEN self.tdSubType
    ELSE self.tdType

RECURSIVE DimElements(_)
\* lines 566-568: one 'dim' sub-element per extent
DimElements(dimensions) ==
    IF dimensions = <<>> THEN <<>>
    ELSE <<Element("dim", FormatInt(dimensions[1]), <<>>)>> \o DimElements(Tail(dimensions))

Exported(df_elem) == [elem |-> df_elem, exc |-> ""]
ExportFailed(df_elem, e) == [elem |-> df_elem, exc |-> e]

RECURSIVE exportXML(_, _)
RECURSIVE ExportChildren(_, _, _)

\* sub_df.exportXML(subelem, fname_base) has returned r for the sub-element
\* ET.SubElement appended to df_elem
ExportChild(self, df_elem, j, r) ==
    IF r.exc # "" THEN ExportFailed([df_elem EXCEPT !.sub = Append(df_elem.sub, r.elem)], r.exc)
    ELSE ExportChildren(self, [df_elem EXCEPT !.sub = Append(df_elem.sub, r.elem)], j + 1)

\* for sub_df in self.value: subelem = ET.SubElement(df_elem,
\* sub_df.getXMLTagName()); sub_df.exportXML(subelem, fname_base)
ExportChildren(self, df_elem, j) ==
    IF j > Len(self.value.l) THEN Exported(df_elem)
    ELSE ExportChild(self, df_elem, j,
                     exportXML(self.value.l[j],
                               Element(getXMLTagName(self.value.l[j]), NoText, <<>>)))

\* df_elem.text = "{:d}".format(self.value): None has no format 'd'
FormatD(self, df_elem) ==
    IF self.value.t # "int" THEN ExportFailed(df_elem, "TypeError")
    ELSE Exported([df_elem EXCEPT !.text = FormatInt(self.value.i)])

\* DataFillFixedPoint.exportXML, lines 932-936
DataFillFixedPoint_exportXML(self, df_elem) ==
    IF self.value.t # "int" THEN ExportFailed(df_elem, "TypeError")
    ELSE IF self.vflags.t # "int"
    THEN Exported([df_elem EXCEPT !.text = FormatInt(self.value.i)])
    ELSE Exported([df_elem EXCEPT !.text = FormatInt(self.value.i),
                                  !.Flags = FormatX02(self.vflags.i)])

ComplexFixedPt_tags == <<"real", "imag">>

RECURSIVE DataFillComplexFixedPt_export(_, _, _)
\* lines 888-891: for i, val in enumerate(self.value), from part i on; the
\* format of line 891 has no None
DataFillComplexFixedPt_export(self, df_elem, i) ==
    IF i > Len(self.value.l) THEN Exported(df_elem)
    ELSE IF self.value.l[i].t # "int"
    THEN ExportFailed([df_elem EXCEPT !.sub =
                          Append(df_elem.sub, Element(ComplexFixedPt_tags[i], NoText, <<>>))],
                      "TypeError")
    ELSE IF self.vflags.l[i].t # "int"
    THEN ExportFailed([df_elem EXCEPT !.sub =
                          Append(df_elem.sub,
                                 Element(ComplexFixedPt_tags[i],
                                         FormatInt(self.value.l[i].i), <<>>))],
                      "TypeError")
    ELSE DataFillComplexFixedPt_export(
             self,
             [df_elem EXCEPT !.sub =
                 Append(df_elem.sub,
                        [Element(ComplexFixedPt_tags[i], FormatInt(self.value.l[i].i), <<>>)
                            EXCEPT !.Flags = FormatX02(self.vflags.l[i].i)])],
             i + 1)

\* DataFillComplexFixedPt.exportXML, lines 886-892
DataFillComplexFixedPt_exportXML(self, df_elem) ==
    DataFillComplexFixedPt_export(self, df_elem, 1)

\* exportXML(df_elem, fname_base) of the classes whose text form is modelled
exportXML(self, df_elem) ==
    CASE self.cls \in {"DataFillInt", "DataFillSimpleRefnum", "DataFillUDRefnum"} ->
            FormatD(self, df_elem)
      [] self.cls \in {"DataFillBool", "DataFillPtr"} ->
            Exported([df_elem EXCEPT !.text = FormatValue(self.value)])
      [] self.cls = "DataFillBlock" ->
            IF self.value.t # "bytes" THEN ExportFailed(df_elem, "AttributeError")
            ELSE Exported([df_elem EXCEPT !.text = Hex(self.value.b)])
      [] self.cls = "DataFillArray" ->
            ExportChildren(self, [df_elem EXCEPT !.sub = df_elem.sub \o DimElements(self.dimensions)], 1)
      [] self.cls \in {"DataFillCluster", "DataFillRepeatedBlock", "DataFillTypeDef",
                       "DataFillMeasureData", "SpecialDSTMCluster"} ->
            ExportChildren(self, df_elem, 1)
      [] self.cls \in {"DataFillVoid", "DataFillUnexpected", "DataFillExtData"} ->
            Exported(df_elem)
      [] self.cls = "DataFillFixedPoint" -> DataFillFixedPoint_exportXML(self, df_elem)
      [] self.cls = "DataFillComplexFixedPt" -> DataFillComplexFixedPt_exportXML(self, df_elem)

(***************************************************************************)
(* The state machine: one data-fill tree and the calls made on it.         *)
(***************************************************************************)
\* No node yet.
NoDF == DataFill("", "", "")

\* last: the call made last, the descriptor it was given (setTD), the
\* exception it raised and (initWithRSRC) the parts of its message, what it
\* returned, and the tree as it was before it.
H(op, td, e, buf, n, before) ==
    [op |-> op, td |-> td, exc |-> e, msg |-> <<>>, data_buf |-> buf,
     exp_whole_len |-> n, before |-> before]

\* The caller holds the node r.df that a factory returned.
Created(td, r) ==
    /\ r.exc = ""
    /\ df' = r.df
    /\ last' = H("new", td, r.exc, <<>>, None, df)
    /\ UNCHANGED <<ver, bldata, startPos, reader, bound, elem>>

\* newDataFillObjectWithTD(vi, idx, tm_flags, td, po) by the caller
New(td, idx, tm_flags) ==
    /\ df = NoDF
    /\ Created(td, newDataFillObjectWithTD(idx, tm_flags, td))

\* newSpecialDSTMClusterWithTD(vi, idx, tm_flags, td, po) by the caller
NewSpecial(td, idx, tm_flags) ==
    /\ df = NoDF
    /\ Created(td, newSpecialDSTMClusterWithTD(idx, tm_flags, td))

\* df.initWithRSRC(bldata) has returned r
Parsed(data, start, r) ==
    /\ df' = r.df
    /\ bldata' = SubSeq(data, 1, r.rd.pos)
    /\ startPos' = start
    /\ reader' = r.rd
    /\ last' = [H("initWithRSRC", None, r.exc, <<>>, None, df) EXCEPT !.msg = r.msg]
    /\ UNCHANGED <<ver, bound, elem>>

\* df.initWithRSRC(bldata) on a reader over `data`, positioned at `start`
Parse(data, start) == Parsed(data, start, initWithRSRC(df, data, Rd(start)))

\* The fill of a new node: df.initWithRSRC(bldata) on the file's bytes
InitWithRSRC(data, start) ==
    /\ df # NoDF
    /\ last.op = "new"
    /\ start <= Len(data)
    /\ Parse(data, start)

\* df.initWithRSRC(BytesIO(data_buf)) on the bytes prepareRSRCData returned last
InitWithRSRCAgain ==
    /\ df # NoDF
    /\ last.op = "prepareRSRCData"
    /\ last.exc = ""
    /\ Parse(last.data_buf, 0)

\* df.prepareRSRCData(avoid_recompute) has returned r
Prepared(r) ==
    /\ df' = r.df
    /\ last' = H("prepareRSRCData", None, r.exc, r.buf, None, df)
    /\ UNCHANGED <<ver, bldata, startPos, reader, bound, elem>>

\* df.prepareRSRCData(avoid_recompute)
PrepareRSRCData(avoid_recompute) ==
    /\ df # NoDF
    /\ Prepared(prepareRSRCData(df, avoid_recompute))

\* df.expectedRSRCSize() has returned r
Expected(r) ==
    /\ last' = H("expectedRSRCSize", None, r.exc, <<>>, r.n, df)
    /\ UNCHANGED <<ver, df, bldata, startPos, reader, bound, elem>>

\* df.expectedRSRCSize()
ExpectedRSRCSize ==
    /\ df # NoDF
    /\ Expected(expectedRSRCSize(df))

\* df.setTD(td, idx, tm_flags) has returned r
Bound(td, r) ==
    /\ df' = r.df
    /\ bound' = r.calls
    /\ last' = H("setTD", td, r.exc, <<>>, None, df)
    /\ UNCHANGED <<ver, bldata, startPos, reader, elem>>

\* df.setTD(td, idx, tm_flags)
SetTD(td, idx, tm_flags) ==
    /\ df # NoDF
    /\ Bound(td, setTD(df, td, idx, tm_flags))

\* df.exportXML(df_elem, fname_base) has returned r
ExportedXML(r) ==
    /\ elem' = r.elem
    /\ last' = H("exportXML", None, r.exc, <<>>, None, df)
    /\ UNCHANGED <<ver, df, bldata, startPos, reader, bound>>

\* df.exportXML(ET.Element(df.getXMLTagName()), fname_base)
ExportXML ==
    /\ df # NoDF
    /\ ExportedXML(exportXML(df, Element(getXMLTagName(df), NoText, <<>>)))

\* df.initWithXML(df_elem) has returned r
FilledXML(df_elem, r) ==
    /\ df' = r.df
    /\ elem' = df_elem
    /\ last' = H("initWithXML", None, r.exc, <<>>, None, df)
    /\ UNCHANGED <<ver, bldata, startPos, reader, bound>>

\* newDataFillObjectWithTag(vi, df_elem.tag, po) by the caller, and
\* df.initWithXML(df_elem) on the new node
InitWithXML(df_elem) ==
    /\ df = NoDF
    /\ newDataFillObjectWithTag(df_elem.tag).exc = ""
    /\ FilledXML(df_elem, initWithXML(newDataFillObjectWithTag(df_elem.tag).df, df_elem))

\* df.initWithXML(df_elem) on the element exportXML filled last
InitWithXMLAgain ==
    /\ df # NoDF
    /\ last.op = "exportXML"
    /\ last.exc = ""
    /\ FilledXML(elem, initWithXML(df, elem))

\* df.setTD(td, idx, tm_flags) on the node initWithXML has filled
SetTDText(td, idx, tm_flags) ==
    /\ last.op = "initWithXML"
    /\ last.exc = ""
    /\ SetTD(td, idx, tm_flags)

\* df.initWithXMLLate() has returned r
LateBound(r) ==
    /\ df' = r.df
    /\ last' = H("initWithXMLLate", None, r.exc, <<>>, None, df)
    /\ UNCHANGED <<ver, bldata, startPos, reader, bound, elem>>

\* df.initWithXMLLate() on the node that initWithXML has filled and setTD bound
InitWithXMLLate ==
    /\ df # NoDF
    /\ last.op = "setTD"
    /\ last.exc = ""
    /\ LateBound(initWithXMLLate(df))

InitAt(versions) ==
    /\ ver \in versions
    /\ df = NoDF
    /\ bldata = <<>>
    /\ startPos = 0
    /\ reader = Rd(0)
    /\ last = H("", None, "", <<>>, None, NoDF)
    /\ bound = <<>>
    /\ elem = NoElement

(***************************************************************************)
(* Inputs.                                                                 *)
(***************************************************************************)
W(a) == ToBytes(a, 4, FALSE)
\* Fillers: zero bytes, counting bytes, and strings of length 1.
TailZero == [i \in 1 .. TailLen |-> 0]
TailCount == [i \in 1 .. TailLen |-> i % Radix]
TailStr == [i \in 1 .. TailLen |->
              IF i % 5 = 4 THEN 1 ELSE IF i % 5 = 0 THEN Radix - 1 ELSE 0]
Tails == {TailZero, TailCount, TailStr}

(***************************************************************************)
(* Spec: strings, blocks, clusters, arrays, repeated blocks, type-defs and *)
(* tag refnums, filled, bound again, encoded and sized.                    *)
(***************************************************************************)
Headers == {<<>>, W(1), W(2), W(2) \o W(3), W(WordTop + 2) \o W(1)}
Streams == {h \o t : h \in Headers, t \in Tails} \cup {<<>>, <<1>>}

Roots == {9, 11, 12, 13, 14, 15, 17, 18, 19, 22, 23, 28}
Rebinds == {6, 12, 13, 17, 18}
Versions == {<<12, 0, 0, 1>>, <<12, 0, 0, 3>>}

Init == InitAt(Versions)

Next ==
    \/ \E td \in Roots : New(td, -1, 0)
    \/ \E data \in Streams : InitWithRSRC(data, 0)
    \/ InitWithRSRCAgain
    \/ \E a \in BOOLEAN : PrepareRSRCData(a)
    \/ ExpectedRSRCSize
    \/ \E td \in Rebinds : SetTD(td, 3, 16)

Spec == Init /\ [][Next]_vars

(***************************************************************************)
(* Helpers of the properties.                                              *)
(***************************************************************************)
RECURSIVE WellTyped(_)
\* Every node of the tree that has a descriptor has that descriptor's type.
WellTyped(n) ==
    /\ n.td # None => n.tdType = fullType(n.td)
    /\ n.value.t = "list" => \A k \in 1 .. Len(n.value.l) : WellTyped(n.value.l[k])

\* The unsigned number a byte string writes, most significant byte first.
BigEndian(b) ==
    IF b = <<>> THEN 0
    ELSE LET S[k \in 0 .. Len(b)] == IF k = 0 THEN 0 ELSE S[k - 1] * Radix + b[k]
         IN  S[Len(b)]

\* The last initWithRSRC returned normally and no read of it met the end of
\* the data: the input held a complete value.
FilledWhole == bldata # <<>> /\ ~reader.eof

(***************************************************************************)
(* C1.  setTD with a descriptor of another type than the node's raises     *)
(* RuntimeError and leaves the whole tree (index, flags, descriptor, the   *)
(* children and their bindings) as it was; and in every reachable state    *)
(* every node that has a descriptor has the descriptor's type.             *)
(***************************************************************************)
C1_MismatchRejected ==
    /\ (last.op = "setTD" /\ last.before.tdType # fullType(last.td))
          => (last.exc = "RuntimeError" /\ df = last.before)
    /\ WellTyped(df)

\* A cluster with decoded children was given the descriptor of a block.
C1_Witness ==
    /\ last.op = "setTD"
    /\ last.exc = "RuntimeError"
    /\ last.before.tdType = "Cluster"
    /\ fullType(last.td) = "Block"
    /\ Len(df.value.l) = 3
    /\ df.value.l[3].td = 12

(***************************************************************************)
(* C3.  Whenever expectedRSRCSize() returns a number for a node filled     *)
(* from a complete input, the prepareRSRCData() called next returns that   *)
(* many bytes, also for a block whose value is not td.blkSize long.        *)
(***************************************************************************)
C3_ExpectedIsEncodedLength ==
    [][(/\ last.op = "expectedRSRCSize"
        /\ last.exc = ""
        /\ last.exp_whole_len # None
        /\ FilledWhole
        /\ last'.op = "prepareRSRCData"
        /\ last'.exc = "")
       => Len(last'.data_buf) = last.exp_whole_len]_vars

(***************************************************************************)
(* C4.  After an initWithRSRC of a complete value, the reader has advanced *)
(* over n bytes and the prepareRSRCData() called next returns exactly      *)
(* those n bytes.                                                          *)
(***************************************************************************)
C4_DecodeEncodeLossless ==
    [][(/\ last.op = "initWithRSRC"
        /\ last.exc = ""
        /\ FilledWhole
        /\ last'.op = "prepareRSRCData")
       => (/\ last'.exc = ""
           /\ last'.data_buf = SubSeq(bldata, startPos + 1, reader.pos))]_vars

(***************************************************************************)
(* SpecArray: arrays and repeated blocks filled from streams that begin    *)
(* with two extent words.                                                  *)
(***************************************************************************)
WordVals == {0, 1, 2, 3, array_data_limit, array_data_limit + 1, WordTop + 2}
ArrayStreams ==
    {W(a) \o W(b) \o TailCount : a, b \in WordVals} \cup {<<>>, W(2), W(2) \o W(3)}
ArrayRoots == {14, 15, 16, 19, 20, 21, 27, 29}

NextArray ==
    \/ \E td \in ArrayRoots : New(td, -1, 0)
    \/ \E data \in ArrayStreams : InitWithRSRC(data, 0)
    \/ \E a \in BOOLEAN : PrepareRSRCData(a)
    \/ ExpectedRSRCSize

SpecArray == Init /\ [][NextArray]_vars

\* The extent word k of the stream the array was filled from.
Extent(k) == BigEndian(SubSeq(bldata, startPos + 4 * k - 3, startPos + 4 * k))

\* The product of the extents of the stream, each without its top bit, for an
\* array of n dimensions.
Product(n) ==
    IF n = 0 THEN 1
    ELSE LET P[k \in 1 .. n] ==
                 IF k = 1 THEN Extent(1) % WordTop ELSE P[k - 1] * (Extent(k) % WordTop)
         IN  P[n]

\* The bytes one element of the array takes, for the element types of fixed size.
ElementSize(td) ==
    CASE TDs[td].clients = <<5>> -> 1
      [] TDs[td].clients = <<6>> -> 2
      [] TDs[td].clients = <<18>> -> 3
      [] OTHER -> None

\* The array df was the target of the last call, an initWithRSRC that read
\* all its extent words.
ArrayFilled ==
    /\ last.op = "initWithRSRC"
    /\ df.cls = "DataFillArray"
    /\ Len(bldata) - startPos >= 4 * TDs[df.td].ndims

(***************************************************************************)
(* C5.  initWithRSRC of an array reads one 4-byte unsigned extent per      *)
(* dimension of the descriptor, then creates P = the product of the        *)
(* extents without their top bits children of the one client type, filled  *)
(* one after the other; with elements of s bytes it advances by            *)
(* 4 * dims + P * s; extents [2, 3] of 2-byte elements give 6 children and *)
(* 8 + 12 bytes; a zero extent gives no children.                          *)
(***************************************************************************)
C5_ArrayElementCount ==
    (ArrayFilled /\ TDs[df.td].clients # <<>>) =>
        /\ df.dimensions = [k \in 1 .. TDs[df.td].ndims |-> Extent(k)]
        /\ (Product(TDs[df.td].ndims) <= array_data_limit /\ ~reader.eof) =>
              /\ last.exc = ""
              /\ Len(df.value.l) = Product(TDs[df.td].ndims)
              /\ \A k \in 1 .. Len(df.value.l) :
                    /\ df.value.l[k].td = TDs[df.td].clients[1]
                    /\ df.value.l[k].tdType = fullType(TDs[df.td].clients[1])
              /\ ElementSize(df.td) # None =>
                    reader.pos - startPos =
                        4 * TDs[df.td].ndims + Product(TDs[df.td].ndims) * ElementSize(df.td)
              /\ TDs[df.td].clients = <<6>> =>
                    \A k \in 1 .. Len(df.value.l) :
                        df.value.l[k].value =
                            VInt(BigEndian(SubSeq(bldata, startPos + 4 * TDs[df.td].ndims + 2 * k - 1,
                                                  startPos + 4 * TDs[df.td].ndims + 2 * k)))
        /\ (df.dimensions = <<2, 3>> /\ TDs[df.td].clients = <<6>> /\ ~reader.eof) =>
              (Len(df.value.l) = 6 /\ reader.pos - startPos = 8 + 12)
        /\ (last.exc = "" /\ \E k \in 1 .. Len(df.dimensions) : df.dimensions[k] % WordTop = 0) =>
              df.value.l = <<>>

\* Extents [2, 3] of 2-byte integers: 6 children, 20 bytes.
C5_Witness ==
    /\ ArrayFilled
    /\ df.dimensions = <<2, 3>>
    /\ TDs[df.td].clients = <<6>>
    /\ Len(df.value.l) = 6
    /\ reader.pos = 20
    /\ last.exc = ""

(***************************************************************************)
(* C6.  When the element count of an array, or the numRepeats of a         *)
(* repeated block, is greater than array_data_limit, initWithRSRC raises,  *)
(* creates no child and reads no element byte (of an array only the extent *)
(* words are read); a count equal to the limit is accepted.                *)
(***************************************************************************)
C6_LimitEnforced ==
    /\ (ArrayFilled /\ TDs[df.td].clients # <<>>) =>
          /\ Product(TDs[df.td].ndims) > array_data_limit =>
                /\ last.exc = "RuntimeError"
                /\ df.value.l = <<>>
                /\ reader.pos - startPos = 4 * TDs[df.td].ndims
          /\ (Product(TDs[df.td].ndims) = array_data_limit /\ ~reader.eof) =>
                (last.exc = "" /\ Len(df.value.l) = array_data_limit)
    /\ (last.op = "initWithRSRC" /\ df.cls = "DataFillRepeatedBlock") =>
          /\ TDs[df.td].numRepeats > array_data_limit =>
                /\ last.exc = "RuntimeError"
                /\ df.value.l = <<>>
                /\ reader.pos = startPos
          /\ (TDs[df.td].numRepeats = array_data_limit /\ ~reader.eof) =>
                (last.exc = "" /\ Len(df.value.l) = array_data_limit)

\* An array whose extents multiply to one more than the limit was refused.
C6_Witness ==
    /\ ArrayFilled
    /\ Product(TDs[df.td].ndims) = array_data_limit + 1
    /\ last.exc = "RuntimeError"
    /\ reader.pos = 8

(***************************************************************************)
(* SpecInt: the integers of every width and signedness, filled, encoded    *)
(* and filled again from the encoding.                                     *)
(***************************************************************************)
IntStreams ==
    {<<b>> \o [i \in 1 .. k |-> f] \o <<l>> :
        b \in Byte, k \in {0, 2, 6}, f \in {0, Radix - 1}, l \in {0, 1, Radix - 1}}
    \cup {<<b>> : b \in Byte}
IntRoots == 1 .. 8

NextInt ==
    \/ \E td \in IntRoots : New(td, -1, 0)
    \/ \E data \in IntStreams : InitWithRSRC(data, 0)
    \/ InitWithRSRCAgain
    \/ \E a \in BOOLEAN : PrepareRSRCData(a)
    \/ ExpectedRSRCSize

SpecInt == Init /\ [][NextInt]_vars

\* The width in bytes and the signedness that an integer type tag stands for.
Width(tdType) ==
    CASE tdType \in {"NumInt8", "NumUInt8"} -> 1
      [] tdType \in {"NumInt16", "NumUInt16"} -> 2
      [] tdType \in {"NumInt32", "NumUInt32"} -> 4
      [] tdType \in {"NumInt64", "NumUInt64"} -> 8
Signed(tdType) == tdType \in {"NumInt8", "NumInt16", "NumInt32", "NumInt64"}

\* v is representable in the width and signedness of tdType.
Representable(v, tdType) ==
    IF Signed(tdType)
    THEN -((Radix ^ Width(tdType)) \div 2) <= v /\ v < (Radix ^ Width(tdType)) \div 2
    ELSE 0 <= v /\ v < Radix ^ Width(tdType)

\* The unsigned number that the two's complement of v in w bytes writes.
TwosComplement(v, w) == IF v < 0 THEN v + Radix ^ w ELSE v

(***************************************************************************)
(* C2.  For every integer type and every value v of its width and          *)
(* signedness, prepareRSRCData returns exactly `width` bytes, v big-endian *)
(* (two's complement), and initWithRSRC of those bytes gives v again.      *)
(***************************************************************************)
C2_IntRoundTrip ==
    df.cls = "DataFillInt" =>
        /\ df.value.t = "int" => Representable(df.value.i, df.tdType)
        /\ (last.op = "prepareRSRCData" /\ last.before.value.t = "int") =>
              /\ last.exc = ""
              /\ Len(last.data_buf) = Width(df.tdType)
              /\ BigEndian(last.data_buf) = TwosComplement(df.value.i, Width(df.tdType))
        /\ (last.op = "initWithRSRC" /\ last.before.value.t = "int") =>
              /\ last.exc = ""
              /\ Len(bldata) = Width(df.tdType)
              /\ BigEndian(bldata) = TwosComplement(last.before.value.i, Width(df.tdType))
              /\ reader = [pos |-> Width(df.tdType), eof |-> FALSE]
              /\ df.value = last.before.value

\* The smallest 8-byte signed integer came back from its encoding.
C2_Witness ==
    /\ df.tdType = "NumInt64"
    /\ last.op = "initWithRSRC"
    /\ last.before.value = VInt(-((Radix ^ 8) \div 2))
    /\ df.value = VInt(-((Radix ^ 8) \div 2))
    /\ bldata = <<Radix \div 2, 0, 0, 0, 0, 0, 0, 0>>

(***************************************************************************)
(* SpecBool: the two booleans under file versions on both sides of 4.5.0.  *)
(***************************************************************************)
BoolVersions == {<<4, 0, 0, 0>>, <<4, 4, 9, 9>>, <<4, 5, 0, 0>>, <<5, 0, 0, 0>>, <<12, 0, 0, 3>>}
BoolStreams == {<<>>} \cup {<<a>> : a \in Byte} \cup {<<a, b>> : a, b \in Byte}
BoolRoots == {9, 10}

InitBool == InitAt(BoolVersions)

NextBool ==
    \/ \E td \in BoolRoots : New(td, -1, 0)
    \/ \E data \in BoolStreams : InitWithRSRC(data, 0)
    \/ InitWithRSRCAgain
    \/ \E a \in BOOLEAN : PrepareRSRCData(a)
    \/ ExpectedRSRCSize

SpecBool == InitBool /\ [][NextBool]_vars

\* The bytes of a boolean: 2 for the 16-bit tag; for the plain tag 1 from
\* file version 4.5.0.0 on and 2 before.
BoolWidth ==
    IF df.tdType = "BooleanU16" THEN 2
    ELSE IF ver[1] > 4 \/ (ver[1] = 4 /\ ver[2] >= 5) THEN 1 ELSE 2

(***************************************************************************)
(* C7.  A BooleanU16 node reads and writes 2 bytes under every file        *)
(* version; a Boolean node 1 byte when the version is >= 4.5.0.0 and 2     *)
(* bytes when it is lower; prepareRSRCData and expectedRSRCSize use the    *)
(* width initWithRSRC used.                                                *)
(***************************************************************************)
C7_BoolWidth ==
    df.cls = "DataFillBool" =>
        /\ (last.op = "initWithRSRC" /\ ~reader.eof) =>
              /\ last.exc = ""
              /\ reader.pos - startPos = BoolWidth
              /\ df.value = VInt(BigEndian(SubSeq(bldata, startPos + 1, startPos + BoolWidth)))
        /\ (last.op = "prepareRSRCData" /\ last.before.value.t = "int") =>
              /\ last.exc = ""
              /\ Len(last.data_buf) = BoolWidth
              /\ BigEndian(last.data_buf) = df.value.i
        /\ (last.op = "expectedRSRCSize" /\ df.value.t = "int") =>
              /\ last.exc = ""
              /\ last.exp_whole_len = BoolWidth

\* A plain boolean of a 4.0.0.0 file was read from 2 bytes and written as 2.
C7_Witness ==
    /\ ver = <<4, 0, 0, 0>>
    /\ df.tdType = "Boolean"
    /\ bldata = <<1, 2>>
    /\ last.op = "prepareRSRCData"
    /\ last.data_buf = <<1, 2>>

(***************************************************************************)
(* SpecDSTM: special clusters of 8 and of 3 clients under the flag words   *)
(* made of the bits 0x0004, 0x0010, 0x0020, 0x0040 and 0x0200, filled and  *)
(* bound again.                                                            *)
(***************************************************************************)
DSTMVersions == {<<10, 0, 0, 1>>, <<10, 0, 0, 2>>, <<12, 0, 0, 3>>}
DSTMFlags == {4 * a + 16 * b + 32 * c + 64 * d + 512 * e : a, b, c, d, e \in {0, 1}}
DSTMRoots == {25, 26}
DSTMStreams == {TailCount, TailZero}

InitDSTM == InitAt(DSTMVersions)

NextDSTM ==
    \/ \E td \in DSTMRoots, f \in DSTMFlags : NewSpecial(td, -1, f)
    \/ \E data \in DSTMStreams : InitWithRSRC(data, 0)
    \/ \E td \in DSTMRoots, f \in DSTMFlags : f \in {0, df.tm_flags} /\ SetTD(td, 3, f)
    \/ \E a \in BOOLEAN : PrepareRSRCData(a)
    \/ ExpectedRSRCSize

SpecDSTM == InitDSTM /\ [][NextDSTM]_vars

\* The client position (from 0) of the descriptor sub among the clients of td.
PositionOf(td, sub) ==
    CHOOSE p \in 0 .. (Len(TDs[td].clients) - 1) : TDs[td].clients[p + 1] = sub

\* The client positions that the children of the special cluster df stand for.
Positions == [k \in 1 .. Len(df.value.l) |-> PositionOf(df.td, df.value.l[k].td)]

\* The numbers of the set S in ascending order.
Ascending(S) ==
    CHOOSE q \in [1 .. Cardinality(S) -> S] :
        \A i, j \in 1 .. Cardinality(S) : i < j => q[i] < q[j]

\* The qualifying positions S in ascending order, without the first one when
\* bit 0x0200 of the flag word is set.
Qualifying(flags, S) ==
    IF HasBit(flags, 512) /\ S # {} THEN Tail(Ascending(S)) ELSE Ascending(S)

\* The client positions of the descriptor of df.
ClientPositions == 0 .. (Len(TDs[df.td].clients) - 1)

\* The rules for a flag word whose bit 0x0004 is clear.
Rule234(flags, p) ==
    IF HasBit(flags, 16) THEN p \in {1, 2, 3}
    ELSE IF HasBit(flags, 32) THEN p = 3
    ELSE IF HasBit(flags, 64) THEN p = 2
    ELSE FALSE

\* The special cluster df was the target of the last call, an initWithRSRC.
SpecialFilled == last.op = "initWithRSRC" /\ df.cls = "SpecialDSTMCluster"

(***************************************************************************)
(* C8.  With bit 0x0004 clear, initWithRSRC of a special cluster creates   *)
(* children for exactly the qualifying client positions, ascending:        *)
(* 1, 2, 3 if bit 0x0010 is set; else 3 if 0x0020; else 2 if 0x0040; else  *)
(* none; with bit 0x0200 the first qualifying client gets no child.  8     *)
(* clients and flags 0x0010: positions 1, 2, 3; flags 0x0210: 2 and 3.     *)
(***************************************************************************)
C8_SpecialClusterEntries ==
    (SpecialFilled /\ ~HasBit(df.tm_flags, 4)) =>
        /\ last.exc = ""
        /\ Positions = Qualifying(df.tm_flags,
                                  {p \in ClientPositions : Rule234(df.tm_flags, p)})
        /\ \A k \in 1 .. Len(df.value.l) :
              /\ df.value.l[k].index = df.value.l[k].td
              /\ df.value.l[k].tdType = fullType(df.value.l[k].td)
              /\ df.value.l[k].value.t = "int"
        /\ (df.td = 25 /\ df.tm_flags = 16) => Positions = <<1, 2, 3>>
        /\ (df.td = 25 /\ df.tm_flags = 528) => Positions = <<2, 3>>

\* 8 clients, flags 0x0210: two children, of the clients 2 and 3.
C8_Witness ==
    /\ SpecialFilled
    /\ df.td = 25
    /\ df.tm_flags = 528
    /\ Len(df.value.l) = 2
    /\ df.value.l[1].td = 5
    /\ df.value.l[2].td = 6

\* The file version is >= 10.0.0.2.
AtLeast10002 ==
    \/ ver[1] > 10
    \/ ver[1] = 10 /\ ver[2] > 0
    \/ ver[1] = 10 /\ ver[2] = 0 /\ ver[3] > 0
    \/ ver[1] = 10 /\ ver[2] = 0 /\ ver[3] = 0 /\ ver[4] >= 2

(***************************************************************************)
(* C9.  With bit 0x0004 set, the only qualifying position is 2 when the    *)
(* file version is >= 10.0.0.2 and 1 when it is lower, whatever the bits   *)
(* 0x0010, 0x0020 and 0x0040 are.                                          *)
(***************************************************************************)
C9_Bit4Position ==
    (SpecialFilled /\ HasBit(df.tm_flags, 4)) =>
        Positions = Qualifying(df.tm_flags,
                               IF AtLeast10002 THEN {2} ELSE {1})

(***************************************************************************)
(* C10.  setTD on a special cluster just filled by initWithRSRC, with the  *)
(* same descriptor and flag word, calls setTD on the k-th child, for every *)
(* k, with the client descriptor and client index the fill gave it.        *)
(***************************************************************************)
C10_BindRepeatsDecode ==
    [][(/\ SpecialFilled
        /\ last.exc = ""
        /\ last'.op = "setTD"
        /\ last'.td = df.td
        /\ df'.tm_flags = df.tm_flags)
       => bound' = [k \in 1 .. Len(df.value.l) |->
                       Call(k, df.value.l[k].td, df.value.l[k].index)]]_vars

(***************************************************************************)
(* SpecPtr: pointers, alone and in a cluster, under file versions on both  *)
(* sides of 8.6.0.1, filled from bytes and from text.                      *)
(***************************************************************************)
PtrVersions == {<<8, 5, 0, 0>>, <<8, 6, 0, 0>>, <<8, 6, 0, 1>>, <<8, 6, 0, 2>>, <<12, 0, 0, 3>>}
PtrStreams ==
    {W(a) \o <<1>> : a \in {0, 1, WordTop, Radix ^ 4 - 1}}
    \cup {<<>>, <<1, 2>>, <<3>> \o W(5) \o <<2>>}
PtrRoots == {30, 31}
NoneMarker == <<"N", "o", "n", "e">>
PtrElements ==
    {Element("Ptr", t, <<>>) : t \in {NoneMarker, <<"0">>, <<"7">>, NoText}}
    \cup {Element("Cluster", NoText,
                  <<Element("Ptr", NoneMarker, <<>>), Element("NumUInt8", <<"2">>, <<>>)>>)}

InitPtr == InitAt(PtrVersions)

NextPtr ==
    \/ \E td \in PtrRoots : New(td, -1, 0)
    \/ \E data \in PtrStreams, start \in {0, 1} : InitWithRSRC(data, start)
    \/ InitWithRSRCAgain
    \/ \E a \in BOOLEAN : PrepareRSRCData(a)
    \/ ExpectedRSRCSize
    \/ ExportXML
    \/ InitWithXMLAgain
    \/ \E e \in PtrElements : InitWithXML(e)
    \/ \E td \in PtrRoots : SetTDText(td, -1, 0)
    \/ InitWithXMLLate

SpecPtr == InitPtr /\ [][NextPtr]_vars

\* The file version is below 8.6.0.1.
Below8601 ==
    \/ ver[1] < 8
    \/ ver[1] = 8 /\ ver[2] < 6
    \/ ver[1] = 8 /\ ver[2] = 6 /\ ver[3] = 0 /\ ver[4] < 1

(***************************************************************************)
(* C11.  Below file version 8.6.0.1 initWithRSRC of a pointer reads        *)
(* exactly 4 bytes as an unsigned number and prepareRSRCData returns 4     *)
(* bytes; from 8.6.0.1 on initWithRSRC reads nothing and leaves the value  *)
(* None, prepareRSRCData returns no bytes, expectedRSRCSize returns 0,     *)
(* exportXML writes the text None, and initWithXML of that text gives the  *)
(* value None.                                                             *)
(***************************************************************************)
C11_PointerVersionGate ==
    /\ (df.cls = "DataFillPtr" /\ last.op = "initWithRSRC") =>
          /\ last.exc = ""
          /\ (Below8601 /\ ~reader.eof) =>
                /\ reader.pos - startPos = 4
                /\ df.value = VInt(BigEndian(SubSeq(bldata, startPos + 1, startPos + 4)))
          /\ ~Below8601 => (reader.pos = startPos /\ ~reader.eof /\ df.value = VNone)
    /\ (df.cls = "DataFillPtr" /\ last.op = "prepareRSRCData") =>
          /\ (Below8601 /\ last.before.value.t = "int") =>
                /\ last.exc = ""
                /\ Len(last.data_buf) = 4
                /\ BigEndian(last.data_buf) = df.value.i
          /\ ~Below8601 => (last.exc = "" /\ last.data_buf = <<>>)
    /\ (df.cls = "DataFillPtr" /\ last.op = "expectedRSRCSize" /\ ~Below8601) =>
          (last.exc = "" /\ last.exp_whole_len = 0)
    /\ (df.cls = "DataFillPtr" /\ last.op = "exportXML" /\ df.value = VNone) =>
          (last.exc = "" /\ elem.text = NoneMarker)
    /\ (df.cls = "DataFillPtr" /\ last.op = "initWithXML" /\ elem.text = NoneMarker) =>
          (last.exc = "" /\ df.value = VNone)
    /\ (df.td = 31 /\ last.op = "initWithRSRC" /\ ~reader.eof) =>
          reader.pos - startPos = (IF Below8601 THEN 5 ELSE 1)

\* Under 8.6.0.1 a pointer filled at offset 1 without reading a byte was
\* written as the text None and filled again from that text.
C11_Witness ==
    /\ ver = <<8, 6, 0, 1>>
    /\ df.cls = "DataFillPtr"
    /\ last.op = "initWithXML"
    /\ elem.text = NoneMarker
    /\ df.value = VNone
    /\ startPos = 1
    /\ reader.pos = 1

(***************************************************************************)
(* SpecRefnum: the refnums of every class under file versions around the   *)
(* window 12.0.0.2 .. 12.0.0.4 and below 6.0.0, filled, encoded and sized. *)
(***************************************************************************)
RefnumVersions ==
    {<<5, 0, 0, 0>>, <<6, 0, 0, 0>>} \cup {<<12, 0, 0, s>> : s \in 1 .. 6}
RefnumStreams ==
    {W(n) \o t : n \in {0, 1, typedesc_list_limit}, t \in Tails}
    \cup {<<>>, W(1),
          W(2) \o <<2, 1, 2, 0>> \o W(1) \o <<3>> \o W(0) \o <<1>>,
          W(1) \o <<2, 0>> \o W(1) \o <<3>> \o W(0) \o W(1) \o W(0),
          W(typedesc_list_limit + 1) \o <<0, 0, 0, 0>> \o TailZero}
RefnumRoots == {23, 24, 40, 41, 42, 43, 44, 60}

InitRefnum == InitAt(RefnumVersions)

NextRefnum ==
    \/ \E td \in RefnumRoots : New(td, -1, 0)
    \/ \E data \in RefnumStreams : InitWithRSRC(data, 0)
    \/ InitWithRSRCAgain
    \/ \E a \in BOOLEAN : PrepareRSRCData(a)
    \/ ExpectedRSRCSize

SpecRefnum == InitRefnum /\ [][NextRefnum]_vars

\* The file version v satisfies 12.0.0.2 <= v < 12.0.0.5.
InTagWindow == ver[1] = 12 /\ ver[2] = 0 /\ ver[3] = 0 /\ ver[4] >= 2 /\ ver[4] < 5
\* The padding bytes behind the string payload of a tag refnum.
PadLen == IF InTagWindow THEN 1 ELSE 0
\* The length word at offset o of the stream the node was filled from, and
\* the string behind it.
LenAt(o) == BigEndian(SubSeq(bldata, startPos + o + 1, startPos + o + 4))
StrAt(o) == SubSeq(bldata, startPos + o + 5, startPos + o + 4 + LenAt(o))

(***************************************************************************)
(* C12.  A user-defined tag refnum reads on initWithRSRC, and writes on    *)
(* prepareRSRCData, exactly one byte more, directly behind its             *)
(* length-prefixed string, if and only if the file version v satisfies     *)
(* 12.0.0.2 <= v < 12.0.0.5; expectedRSRCSize counts with the same window. *)
(***************************************************************************)
C12_TagWindow ==
    df.cls = "DataFillUDTagRefnum" =>
        /\ (last.op = "initWithRSRC" /\ ~reader.eof) =>
              /\ last.exc = ""
              /\ df.value = VBytes(StrAt(0))
              /\ refType(df.td) = "UsrDefndTag" =>
                    reader.pos - startPos = 4 + LenAt(0) + PadLen
              /\ refType(df.td) = "UsrDefTagFlt" =>
                    df.usrdef1 = VBytes(StrAt(4 + LenAt(0) + PadLen))
        /\ (last.op = "prepareRSRCData" /\ df.value.t = "bytes") =>
              /\ last.exc = ""
              /\ SubSeq(last.data_buf, 1, 4 + Len(df.value.b) + PadLen) =
                    W(Len(df.value.b)) \o df.value.b \o Zeros(PadLen)
              /\ refType(df.td) = "UsrDefndTag" =>
                    Len(last.data_buf) = 4 + Len(df.value.b) + PadLen
        /\ (last.op = "expectedRSRCSize" /\ df.value.t = "bytes") =>
              /\ last.exc = ""
              /\ refType(df.td) = "UsrDefndTag" =>
                    last.exp_whole_len = 4 + Len(df.value.b) + PadLen

\* The classes of refnum nodes.
RefnumClasses ==
    {"DataFillSimpleRefnum", "DataFillUDRefnum", "DataFillIORefnum",
     "DataFillUDTagRefnum", "DataFillUDClassInst"}
\* 1 + n rounded up to a multiple of 4: a length byte, n bytes, padding.
PaddedLen(n) == ((1 + n + 3) \div 4) * 4
RECURSIVE SumLevels(_, _)
SumLevels(l, i) == IF i > Len(l) THEN 0 ELSE 4 + Len(l[i]) + SumLevels(l, i + 1)
\* An IO refnum of a tag kind in a file of version 6.0.0 or later.
IOTagString(self) ==
    /\ self.cls = "DataFillIORefnum"
    /\ ~(ver[1] < 6)
    /\ refType(self.td) \in {"IVIRef", "VisaRef", "UsrDefTagFlt", "UsrDefndTag"}
\* The number of bytes the encoding of the filled refnum node has.
RefnumLength(self) ==
    CASE self.cls \in {"DataFillSimpleRefnum", "DataFillUDRefnum"} -> 4
      [] self.cls = "DataFillIORefnum" ->
            IF IOTagString(self) THEN 4 + Len(self.value.b) ELSE 4
      [] self.cls = "DataFillUDTagRefnum" ->
            4 + Len(self.value.b) + PadLen
            + (IF refType(self.td) = "UsrDefTagFlt"
               THEN 4 + Len(self.usrdef1.b) + 4 + Len(self.usrdef2.b)
                    + 4 + 4 + Len(self.usrdef4.b)
               ELSE 0)
      [] self.cls = "DataFillUDClassInst" ->
            4 + PaddedLen(Len(self.libName)) + SumLevels(self.value.l, 1)

(***************************************************************************)
(* C19.  For a filled refnum node of every class, expectedRSRCSize returns *)
(* a number, and that number is the length of the node's encoding: 4 for   *)
(* the plain refnums, 4 + the payload length for an IO refnum of a tag     *)
(* kind from version 6.0.0 on, and 4 + the padded library name + the sum   *)
(* of 4 + length over the version strings for a class-instance refnum.     *)
(***************************************************************************)
C19_RefnumExpectedSize ==
    (/\ last.op = "expectedRSRCSize"
     /\ df.cls \in RefnumClasses
     /\ df.value.t # "none") =>
        /\ last.exc = ""
        /\ last.exp_whole_len = RefnumLength(df)

(***************************************************************************)
(* SpecMeasure: measurement data of a recognized and of an unrecognized    *)
(* flavor, alone and as a field of a cluster, under file versions on both  *)
(* sides of 7.0.0.2, filled from bytes and from text and bound again.      *)
(***************************************************************************)
MeasureVersions == {<<6, 0, 0, 0>>, <<7, 0, 0, 1>>, <<7, 0, 0, 2>>, <<12, 0, 0, 3>>}
StampBytes == [i \in 1 .. 16 |-> i % Radix]
MeasureStreams ==
    {b \o t : b \in {Zeros(16), StampBytes},
              t \in {<<>>, W(0) \o <<1>>, W(1) \o <<0, 1>>, W(2) \o <<0, 1, 0, 2>>, W(2) \o <<1>>}}
    \cup {<<>>, SubSeq(StampBytes, 1, 8)}
MeasureRoots == {32, 33, 34, 39}
StampElement(b) == Element("Block", Hex(b), <<>>)
MeasureElements ==
    {Element("TimeStamp", NoText, c) :
        c \in {<<>>, <<StampElement(StampBytes)>>,
               <<StampElement(Zeros(16)), StampElement(StampBytes)>>,
               <<Element("NumInt16", <<"1">>, <<>>)>>}}
    \cup {Element("Int16Waveform", NoText,
              <<Element("Cluster", NoText,
                    <<StampElement(StampBytes),
                      Element("Array", NoText,
                          <<Element("dim", <<"1">>, <<>>),
                            Element("NumInt16", <<"2">>, <<>>)>>)>>)>>),
          Element("Unrecognized", NoText, <<StampElement(StampBytes)>>)}

InitMeasure == InitAt(MeasureVersions)

NextMeasure ==
    \/ \E td \in MeasureRoots : New(td, -1, 0)
    \/ \E data \in MeasureStreams : InitWithRSRC(data, 0)
    \/ InitWithRSRCAgain
    \/ \E a \in BOOLEAN : PrepareRSRCData(a)
    \/ ExpectedRSRCSize
    \/ \E td \in MeasureRoots : SetTD(td, -1, 0)
    \/ ExportXML
    \/ InitWithXMLAgain
    \/ \E e \in MeasureElements : InitWithXML(e)
    \/ InitWithXMLLate

SpecMeasure == InitMeasure /\ [][NextMeasure]_vars

\* The file version is below 7.0.0.2.
Below7002 ==
    \/ ver[1] < 7
    \/ ver[1] = 7 /\ ver[2] = 0 /\ ver[3] = 0 /\ ver[4] < 2
\* The flavors whose contained descriptor the decode can synthesize.
Recognized == {"TimeStamp", "Int16Waveform"}

(***************************************************************************)
(* C13.  initWithRSRC and initWithXMLLate of a measurement-data node fail  *)
(* with NotImplementedError under a file version below 7.0.0.2, whatever   *)
(* the flavor, and from 7.0.0.2 on for a flavor that is not recognized;    *)
(* the node's value is left as it was and no byte is read.                 *)
(***************************************************************************)
C13_MeasureNotImplemented ==
    (/\ last.op \in {"initWithRSRC", "initWithXMLLate"}
     /\ last.before.cls = "DataFillMeasureData"
     /\ (Below7002 \/ last.before.tdSubType \notin Recognized)) =>
        /\ last.exc = "NotImplementedError"
        /\ df.value = last.before.value
        /\ last.op = "initWithRSRC" => reader.pos = startPos

\* The descriptor synthesized for the flavor of a measurement-data node.
SynthesizedFor(self, td) ==
    /\ td = self.containedTd
    /\ td # None
    /\ self.tdSubType = "TimeStamp" => (fullType(td) = "Block" /\ TDs[td].blkSize = 16)
    /\ self.tdSubType = "Int16Waveform" => fullType(td) = "Cluster"
\* The measurement-data fields of a composite before and after a call.
MeasureFieldsKept(before, after) ==
    \A k \in 1 .. Len(before.value.l) :
        before.value.l[k].cls = "DataFillMeasureData" =>
            after.value.l[k].value = before.value.l[k].value

(***************************************************************************)
(* C14.  After initWithRSRC of a measurement-data node has succeeded, the  *)
(* node's value holds exactly one child, bound to the descriptor           *)
(* synthesized for the flavor (containedTd) and not to the node's own      *)
(* descriptor or a client of it; after initWithXML, setTD and a successful *)
(* initWithXMLLate every child is bound to containedTd; and setTD on a     *)
(* measurement-data node makes no setTD call on its children.              *)
(***************************************************************************)
C14_MeasureChildBinding ==
    /\ (last.op = "initWithRSRC" /\ last.exc = "" /\ df.cls = "DataFillMeasureData") =>
          /\ Len(df.value.l) = 1
          /\ SynthesizedFor(df, df.value.l[1].td)
          /\ df.value.l[1].tdType = fullType(df.containedTd)
          /\ df.value.l[1].td # df.td
          /\ df.td # None =>
                 \A c \in 1 .. Len(TDs[df.td].clients) :
                     df.value.l[1].td # TDs[df.td].clients[c]
    /\ (last.op = "initWithXMLLate" /\ last.exc = "" /\ df.cls = "DataFillMeasureData") =>
          \A k \in 1 .. Len(df.value.l) :
              /\ SynthesizedFor(df, df.value.l[k].td)
              /\ df.value.l[k].index = -1
              /\ df.value.l[k].tm_flags = df.tm_flags
    /\ (last.op = "setTD" /\ last.before.cls = "DataFillMeasureData") =>
          /\ bound = <<>>
          /\ df.value = last.before.value
    /\ (last.op = "setTD" /\ last.before.cls = "DataFillCluster"
        /\ last.before.value.t = "list" /\ last.exc = "") =>
          MeasureFieldsKept(last.before, df)

C14_Witness ==
    /\ last.op = "initWithXMLLate"
    /\ last.exc = ""
    /\ df.cls = "DataFillMeasureData"
    /\ Len(df.value.l) = 2
    /\ \A k \in 1 .. 2 : df.value.l[k].td = df.containedTd /\ df.containedTd # None

(***************************************************************************)
(* SpecBind: arrays, clusters, repeated blocks and type-defs, new or       *)
(* filled from bytes, bound again to descriptors of their type: with the   *)
(* same clients, with clients of other types, with more, fewer or no       *)
(* clients.                                                                *)
(***************************************************************************)
BindVersions == {<<12, 0, 0, 3>>}
BindRoots == {14, 18, 19, 22, 27}
BindTargets == {14, 46, 29, 18, 47, 48, 49, 50, 19, 52, 53, 22, 51, 27, 54, 55}
BindFlags == {0, 16}

InitBind == InitAt(BindVersions)

NextBind ==
    \/ \E td \in BindRoots : New(td, -1, 0)
    \/ \E data \in Streams : InitWithRSRC(data, 0)
    \/ \E td \in BindTargets, f \in BindFlags : SetTD(td, 3, f)

SpecBind == InitBind /\ [][NextBind]_vars

\* The classes whose setTD binds the children too.
BindClasses ==
    {"DataFillArray", "DataFillCluster", "DataFillRepeatedBlock", "DataFillTypeDef"}
\* The client of descriptor td that child k of a node of class cls belongs to.
ClientOf(cls, td, k) ==
    IF cls = "DataFillCluster" THEN TDs[td].clients[k] ELSE TDs[td].clients[1]
\* The index child k of a node of class cls is bound with.
IndexOf(cls, td, k) ==
    IF cls \in {"DataFillArray", "DataFillTypeDef"} THEN -1 ELSE ClientOf(cls, td, k)
RECURSIVE Fits(_, _)
\* The descriptor td has the node's type tag and, where the node has
\* children, as many clients as the node's class pairs with them (a cluster:
\* one per child; the others: one), each fitting its children in turn.
Fits(n, td) ==
    /\ n.tdType = TDs[td].type
    /\ (n.cls \in BindClasses /\ Len(n.value.l) > 0) =>
          /\ Len(TDs[td].clients) = (IF n.cls = "DataFillCluster" THEN Len(n.value.l) ELSE 1)
          /\ \A k \in 1 .. Len(n.value.l) : Fits(n.value.l[k], ClientOf(n.cls, td, k))
RECURSIVE Unbound(_)
\* The node n without the bindings in it: what no setTD changes.
Unbound(n) ==
    [n EXCEPT !.td = None, !.index = -1, !.tm_flags = None,
              !.value.l = IF n.value.t = "list"
                          THEN [k \in 1 .. Len(n.value.l) |-> Unbound(n.value.l[k])]
                          ELSE n.value.l]
RECURSIVE AllFlags(_, _)
\* Every node from n down has the flag word f.
AllFlags(n, f) ==
    /\ n.tm_flags = f
    /\ n.value.t = "list" => \A k \in 1 .. Len(n.value.l) : AllFlags(n.value.l[k], f)
\* What setTD(last.td, df.index, df.tm_flags) has done to the node
\* last.before: the claim's statement for one call.
BoundAsClaimed ==
    /\ last.exc = ""
    /\ df.td = last.td
    /\ Unbound(df) = Unbound(last.before)
    /\ Len(last.before.value.l) = 0 =>
          /\ df = [last.before EXCEPT !.td = last.td, !.index = df.index,
                                      !.tm_flags = df.tm_flags]
          /\ bound = <<>>
    /\ Len(last.before.value.l) > 0 =>
          /\ bound = [k \in 1 .. Len(df.value.l) |->
                         Call(k, ClientOf(df.cls, last.td, k), IndexOf(df.cls, last.td, k))]
          /\ \A k \in 1 .. Len(df.value.l) :
                /\ df.value.l[k].td = ClientOf(df.cls, last.td, k)
                /\ df.value.l[k].index = IndexOf(df.cls, last.td, k)
                /\ AllFlags(df.value.l[k], df.tm_flags)
    /\ setTD(df, last.td, df.index, df.tm_flags).df = df
    /\ setTD(df, last.td, df.index, df.tm_flags).exc = ""

FailVersions == {<<7, 0, 0, 1>>, <<12, 0, 0, 3>>}
FailRoots == {33, 39, 56, 57, 58, 59}
FailStreams ==
    Streams \cup {<<1>> \o d : d \in Streams} \cup {Zeros(16) \o d : d \in Streams}

InitFail == InitAt(FailVersions)

NextFail ==
    \/ \E td \in FailRoots : New(td, -1, 0)
    \/ NewSpecial(56, -1, 16)
    \/ \E data \in FailStreams : InitWithRSRC(data, 0)
    \/ InitWithRSRCAgain
    \/ \E a \in BOOLEAN : PrepareRSRCData(a)

SpecFail == InitFail /\ [][NextFail]_vars

\* The classes whose fill fills children.
CompositeClasses ==
    {"DataFillArray", "DataFillCluster", "DataFillRepeatedBlock", "DataFillTypeDef",
     "SpecialDSTMCluster", "DataFillMeasureData"}
RECURSIVE DimsProduct(_)
\* The product of the extents without their top bits.
DimsProduct(d) == IF d = <<>> THEN 1 ELSE (d[1] % WordTop) * DimsProduct(Tail(d))
\* An array node whose fill has failed: its extents exceed the limit.
OverLimitArray(n) ==
    /\ n.cls = "DataFillArray"
    /\ n.dimensions # <<>>
    /\ DimsProduct(n.dimensions) > array_data_limit
\* A measurement-data node whose fill has failed: no descriptor was made.
FailedMeasure(n) == n.cls = "DataFillMeasureData" /\ n.containedTd = None
RECURSIVE FailedNode(_)
\* A node, made and filled by the fill of its parent, whose fill has failed.
FailedNode(n) ==
    \/ OverLimitArray(n)
    \/ FailedMeasure(n)
    \/ /\ n.cls \in CompositeClasses
       /\ \E k \in 1 .. Len(n.value.l) : FailedNode(n.value.l[k])
RECURSIVE FailMsg(_)
\* The message of the exception the fill of such a node has raised: its own,
\* or the type tag of its last child in front of that child's message.
FailMsg(n) ==
    IF OverLimitArray(n) THEN <<"claims to contain">>
    ELSE IF FailedMeasure(n)
    THEN (IF Below7002 THEN <<"name 'sub_td' is not defined">> ELSE <<"unsupported flavor">>)
    ELSE <<n.value.l[Len(n.value.l)].tdType>> \o FailMsg(n.value.l[Len(n.value.l)])

(***************************************************************************)
(* C16.  When the fill of a child fails inside the initWithRSRC of an      *)
(* array, cluster, repeated block, type-def, special cluster or            *)
(* measurement-data node, that initWithRSRC fails too, with an exception   *)
(* whose message has the child's type tag in front of the child's message, *)
(* and the failing child is the last child made: no sibling after it is    *)
(* filled.                                                                 *)
(***************************************************************************)
C16_ChildFailurePropagates ==
    (last.op = "initWithRSRC" /\ df.cls \in CompositeClasses /\ df.value.t = "list") =>
        \A k \in 1 .. Len(df.value.l) :
            FailedNode(df.value.l[k]) =>
                /\ last.exc # ""
                /\ last.msg = <<df.value.l[k].tdType>> \o FailMsg(df.value.l[k])
                /\ k = Len(df.value.l)

\* The last call has filled the node: an initWithRSRC, or the initWithXMLLate
\* that ends a fill from text, that has returned.
JustFilled == last.op \in {"initWithRSRC", "initWithXMLLate"} /\ last.exc = ""

(***************************************************************************)
(* C17.  prepareRSRCData on a node that has been filled (by initWithRSRC,  *)
(* or by initWithXML, setTD and initWithXMLLate) returns, and              *)
(* prepareRSRCData called again after it returns the same bytes.           *)
(***************************************************************************)
C17_EncodeRepeatable ==
    [][/\ (JustFilled /\ last'.op = "prepareRSRCData") => last'.exc = ""
       /\ (last.op = "prepareRSRCData" /\ last.exc = "" /\ last'.op = "prepareRSRCData") =>
             (last'.exc = "" /\ last'.data_buf = last.data_buf)]_vars

RECURSIVE ChildrenBytes(_, _, _)
\* The bytes prepareRSRCData(a) returns for the children of n from child k
\* on, one after the other.
ChildrenBytes(n, k, a) ==
    IF k > Len(n.value.l) THEN <<>>
    ELSE prepareRSRCData(n.value.l[k], a).buf \o ChildrenBytes(n, k + 1, a)
RECURSIVE DimsHeader(_)
\* The extents of an array as 4-byte words.
DimsHeader(d) == IF d = <<>> THEN <<>> ELSE W(d[1]) \o DimsHeader(Tail(d))
\* The bytes of a composite in front of its children's.
HeaderBytes(n) == IF n.cls = "DataFillArray" THEN DimsHeader(n.dimensions) ELSE <<>>

(***************************************************************************)
(* C18.  prepareRSRCData(avoid_recompute) of a node returns the same with  *)
(* avoid_recompute True and False (bytes, exception and the node after the *)
(* call), and what a composite returns for a value of the flag is what its *)
(* children return for that value, one after the other (behind the extents *)
(* for an array).                                                          *)
(***************************************************************************)
C18_FlagIndependent ==
    df # NoDF =>
        /\ prepareRSRCData(df, TRUE) = prepareRSRCData(df, FALSE)
        /\ \A a \in BOOLEAN :
              (df.cls \in CompositeClasses /\ prepareRSRCData(df, a).exc = "") =>
                  prepareRSRCData(df, a).buf = HeaderBytes(df) \o ChildrenBytes(df, 1, a)

C18_Witness ==
    /\ last.op = "prepareRSRCData"
    /\ last.exc = ""
    /\ df.td = 28
    /\ Len(df.value.l) = 2
    /\ Len(df.value.l[2].value.l) = 1
    /\ Len(last.data_buf) = 4
    /\ last.data_buf = prepareRSRCData(df, TRUE).buf
    /\ last.data_buf = prepareRSRCData(df, FALSE).buf

\* The last call was prepareRSRCData on a block that holds bytes and is bound.
BlockEncoded ==
    /\ last.op = "prepareRSRCData"
    /\ last.before.cls = "DataFillBlock"
    /\ last.before.value.t = "bytes"
    /\ last.before.td # None
\* The bytes the block held before the call, and its descriptor's block size.
BlockBefore == last.before.value.b
BlockSize == TDs[last.before.td].blkSize

(***************************************************************************)
(* C20.  prepareRSRCData of a block returns exactly td.blkSize bytes and   *)
(* raises nothing: a value shorter than blkSize is returned with zero      *)
(* bytes behind it, a longer one cut to its first blkSize bytes, one of    *)
(* that length unchanged; after the call self.value is the bytes returned. *)
(***************************************************************************)
C20_BlockEncodeSize ==
    BlockEncoded =>
        /\ last.exc = ""
        /\ Len(last.data_buf) = BlockSize
        /\ \A i \in 1 .. BlockSize :
              last.data_buf[i] = (IF i <= Len(BlockBefore) THEN BlockBefore[i] ELSE 0)
        /\ Len(BlockBefore) = BlockSize => last.data_buf = BlockBefore
        /\ df.value.t = "bytes"
        /\ df.value.b = last.data_buf

C20_Witness ==
    /\ BlockEncoded
    /\ Len(BlockBefore) > BlockSize
    /\ BlockBefore[Len(BlockBefore)] # 0
    /\ last.data_buf = SubSeq(BlockBefore, 1, BlockSize)
    /\ df.value.b = last.data_buf

RECURSIVE ChainedFrom(_, _, _)
\* The children of the cluster n from child k on are what the fill of a new
\* node of client k, client k + 1, ... gives, the first from reader position
\* rd, each from where the one before ended, the last ending where the
\* cluster's fill ended.
ChainedFrom(n, k, rd) ==
    IF k > Len(n.value.l) THEN rd = reader
    ELSE LET c == TDs[n.td].clients[k]
             r == initWithRSRC(newDataFillObjectWithTD(c, n.tm_flags, c).df, bldata, rd)
         IN  /\ r.exc = ""
             /\ r.df = n.value.l[k]
             /\ ChainedFrom(n, k + 1, r.rd)

(***************************************************************************)
(* C21.  initWithRSRC of a cluster makes exactly one child per client of   *)
(* the descriptor, child i bound to client i with the client's index and   *)
(* of the client's type, each filled from the position where the child     *)
(* before it ended; prepareRSRCData of a cluster returns the bytes its     *)
(* children return, in that order, and nothing else.                       *)
(***************************************************************************)
C21_ClusterConcatenation ==
    /\ (last.op = "initWithRSRC" /\ last.exc = "" /\ df.cls = "DataFillCluster") =>
          /\ Len(df.value.l) = Len(TDs[df.td].clients)
          /\ \A i \in 1 .. Len(df.value.l) :
                /\ df.value.l[i].td = TDs[df.td].clients[i]
                /\ df.value.l[i].index = TDs[df.td].clients[i]
                /\ df.value.l[i].tdType = TDs[TDs[df.td].clients[i]].type
          /\ ChainedFrom(df, 1, Rd(startPos))
    /\ (last.op = "prepareRSRCData" /\ last.exc = "" /\ df.cls = "DataFillCluster") =>
          last.data_buf = ChildrenBytes(df, 1, FALSE)

C21_Witness ==
    /\ last.op = "prepareRSRCData"
    /\ last.exc = ""
    /\ df.td = 18
    /\ Len(df.value.l) = 2
    /\ df.value.l[1].value.i # 0
    /\ df.value.l[2].value.i # 0
    /\ last.data_buf = SubSeq(bldata, startPos + 1, startPos + 3)
    /\ \A i \in 1 .. 2 : df.value.l[i].index = TDs[18].clients[i]

(***************************************************************************)
(* C22.  An IO refnum is, below file version 6.0.0, a 4-byte unsigned      *)
(* number whatever its kind; from 6.0.0 on a string behind a 4-byte length *)
(* when its kind is a tag kind (IVIRef, VisaRef) and a 4-byte unsigned     *)
(* number otherwise (Imaq); initWithRSRC and prepareRSRCData take the same *)
(* form for the same version and kind.                                     *)
(***************************************************************************)
C22_IORefnumShape ==
    df.cls = "DataFillIORefnum" =>
        /\ (last.op = "initWithRSRC" /\ ~reader.eof) =>
              /\ last.exc = ""
              /\ IOTagString(df) =>
                    (df.value = VBytes(StrAt(0)) /\ reader.pos - startPos = 4 + LenAt(0))
              /\ ~IOTagString(df) =>
                    (df.value = VInt(LenAt(0)) /\ reader.pos - startPos = 4)
        /\ (last.op = "prepareRSRCData" /\ df.value.t # "none") =>
              /\ last.exc = ""
              /\ df.value.t = (IF IOTagString(df) THEN "bytes" ELSE "int")
              /\ IOTagString(df) => last.data_buf = W(Len(df.value.b)) \o df.value.b
              /\ ~IOTagString(df) => last.data_buf = W(df.value.i)

C22_Witness ==
    /\ df.cls = "DataFillIORefnum"
    /\ ver = <<6, 0, 0, 0>>
    /\ refType(df.td) = "VisaRef"
    /\ last.op = "prepareRSRCData"
    /\ Len(df.value.b) = 2
    /\ last.data_buf = SubSeq(bldata, startPos + 1, startPos + 6)

\* A string behind its 4-byte length, as the encoding writes it.
Prefixed(b) == W(Len(b)) \o b
\* The offset, from the start of a tag refnum, of the field behind the
\* string at offset o.
Behind(o) == o + 4 + LenAt(o)
\* A UsrDefTagFlt refnum filled from the stream: the four fields in stream
\* order behind the main string and the padding byte.
TagFltDecoded ==
    /\ df.usrdef1 = VBytes(StrAt(Behind(0) + PadLen))
    /\ df.usrdef2 = VBytes(StrAt(Behind(Behind(0) + PadLen)))
    /\ df.usrdef3 = VInt(LenAt(Behind(Behind(Behind(0) + PadLen))))
    /\ df.usrdef4 = VBytes(StrAt(Behind(Behind(Behind(0) + PadLen)) + 4))
    /\ reader.pos - startPos = Behind(Behind(Behind(Behind(0) + PadLen)) + 4)
\* The encoding of a UsrDefTagFlt refnum that holds its four fields.
TagFltEncoded ==
    Prefixed(df.value.b) \o [i \in 1 .. PadLen |-> 0] \o Prefixed(df.usrdef1.b)
    \o Prefixed(df.usrdef2.b) \o W(df.usrdef3.i) \o Prefixed(df.usrdef4.b)

(***************************************************************************)
(* C23.  A tag refnum of kind UsrDefTagFlt carries, behind its main string *)
(* and the padding byte, a length-prefixed string, a length-prefixed       *)
(* string, a bare 4-byte unsigned number and a length-prefixed string;     *)
(* prepareRSRCData on a node filled by initWithRSRC succeeds and writes    *)
(* the four fields in that form.  A tag refnum of another kind has none of *)
(* the four fields read or written.                                        *)
(***************************************************************************)
C23_TagFltFields ==
    (df.cls = "DataFillUDTagRefnum" /\ df.td # None) =>
        /\ (last.op = "initWithRSRC" /\ ~reader.eof) =>
              /\ last.exc = ""
              /\ refType(df.td) = "UsrDefTagFlt" => TagFltDecoded
              /\ refType(df.td) # "UsrDefTagFlt" =>
                    /\ df.usrdef1 = VNone /\ df.usrdef2 = VNone
                    /\ df.usrdef3 = VNone /\ df.usrdef4 = VNone
                    /\ reader.pos - startPos = Behind(0) + PadLen
        /\ (last.op = "prepareRSRCData" /\ df.value.t = "bytes") =>
              /\ refType(df.td) # "UsrDefTagFlt" =>
                    /\ last.exc = ""
                    /\ last.data_buf = Prefixed(df.value.b) \o [i \in 1 .. PadLen |-> 0]
              /\ (refType(df.td) = "UsrDefTagFlt" /\ df.usrdef3.t = "int") =>
                    /\ last.exc = ""
                    /\ last.data_buf = TagFltEncoded

\* The offset behind the level count, the library name and its padding of a
\* class-instance refnum filled from offset 0 of the stream.
LevelsStart == 4 + PaddedLen(bldata[startPos + 5])
RECURSIVE LevelsAt(_, _)
\* The k length-prefixed strings the stream holds from offset o on.
LevelsAt(o, k) == IF k = 0 THEN <<>> ELSE <<StrAt(o)>> \o LevelsAt(Behind(o), k - 1)
RECURSIVE LevelsEnd(_, _)
\* The offset behind them.
LevelsEnd(o, k) == IF k = 0 THEN o ELSE LevelsEnd(Behind(o), k - 1)

(***************************************************************************)
(* C24.  initWithRSRC of a class-instance refnum fails when the level      *)
(* count of the stream is above typedesc_list_limit, and has then stored   *)
(* no level and read nothing behind the library name and its padding; a    *)
(* level count up to the limit yields exactly that many version strings,   *)
(* each the bytes behind a 4-byte length.                                  *)
(***************************************************************************)
C24_LevelLimit ==
    (/\ df.cls = "DataFillUDClassInst"
     /\ last.op = "initWithRSRC"
     /\ Len(bldata) >= startPos + 5) =>
        /\ LenAt(0) > typedesc_list_limit =>
              /\ last.exc = "RuntimeError"
              /\ df.value.l = <<>>
              /\ ~reader.eof => reader.pos - startPos = LevelsStart
        /\ LenAt(0) <= typedesc_list_limit =>
              /\ last.exc = ""
              /\ Len(df.value.l) = LenAt(0)
              /\ ~reader.eof =>
                    /\ df.value.l = LevelsAt(LevelsStart, LenAt(0))
                    /\ reader.pos - startPos = LevelsEnd(LevelsStart, LenAt(0))

C24_Witness ==
    /\ df.cls = "DataFillUDClassInst"
    /\ last.op = "initWithRSRC"
    /\ ~reader.eof
    /\ LenAt(0) = typedesc_list_limit
    /\ Len(df.value.l) = typedesc_list_limit
    /\ Len(df.libName) > 0
    /\ Len(df.value.l[1]) > 0

(***************************************************************************)
(* SpecAlign: class-instance refnums filled from streams in which the      *)
(* value starts at offset 0, 1, 2 or 3, and encoded.                       *)
(***************************************************************************)
AlignVersions == {<<12, 0, 0, 1>>}
AlignStarts == 0 .. 3
AlignStreams ==
    {Zeros(s) \o W(n) \o <<k>> \o t :
        s \in AlignStarts, n \in {0, 1, 2}, k \in 0 .. Radix - 1, t \in Tails}

InitAlign == InitAt(AlignVersions)

NextAlign ==
    \/ New(43, -1, 0)
    \/ \E data \in AlignStreams, start \in AlignStarts : InitWithRSRC(data, start)
    \/ \E a \in BOOLEAN : PrepareRSRCData(a)

SpecAlign == InitAlign /\ [][NextAlign]_vars

\* A class-instance refnum has just been filled from a stream that held the
\* whole value.
ClassInstFilled ==
    /\ df.cls = "DataFillUDClassInst"
    /\ last.op = "initWithRSRC"
    /\ last.exc = ""
    /\ ~reader.eof
\* The bytes the filling has read behind the library name, up to the first
\* version string.
PaddingSkipped ==
    reader.pos - startPos - 5 - Len(df.libName) - SumLevels(df.value.l, 1)
\* The bytes the encoding has between the library name and the first
\* version string.
PaddingWritten(buf) == Len(buf) - 5 - Len(df.libName) - SumLevels(df.value.l, 1)

(***************************************************************************)
(* C25.  For a class-instance refnum filled by initWithRSRC from a value   *)
(* that starts at any offset of the stream, prepareRSRCData writes behind  *)
(* the library name as many padding bytes as initWithRSRC has skipped, and *)
(* so returns exactly as many bytes as initWithRSRC has consumed.          *)
(***************************************************************************)
C25_PaddingSymmetric ==
    [][(ClassInstFilled /\ last'.op = "prepareRSRCData") =>
          /\ last'.exc = ""
          /\ PaddingWritten(last'.data_buf) = PaddingSkipped
          /\ Len(last'.data_buf) = reader.pos - startPos]_vars

(***************************************************************************)
(* SpecVoid: nodes of the type tags that carry no bytes, and of ExtData,   *)
(* filled from streams and from text, encoded, sized and exported.         *)
(***************************************************************************)
VoidVersions == {<<8, 6, 0, 1>>, <<12, 0, 0, 1>>}
VoidRoots == 61 .. 68
VoidStreams == {<<>>, <<1>>, <<1, 2>>, W(1) \o <<3>>}
VoidElements ==
    {Element(TDs[td].type, t, <<>>) : td \in VoidRoots, t \in {NoText, <<"0">>}}

InitVoid == InitAt(VoidVersions)

NextVoid ==
    \/ \E td \in VoidRoots : New(td, -1, 0)
    \/ \E data \in VoidStreams, start \in {0, 1, 2} : InitWithRSRC(data, start)
    \/ InitWithRSRCAgain
    \/ \E a \in BOOLEAN : PrepareRSRCData(a)
    \/ ExpectedRSRCSize
    \/ ExportXML
    \/ \E e \in VoidElements : InitWithXML(e)
    \/ InitWithXMLAgain

SpecVoid == InitVoid /\ [][NextVoid]_vars

\* The type tags whose values have no bytes.
FallbackTypes ==
    {"Void", "VoidBlock", "AlignmntMarker", "SubString", "SubArray", "Function", "PolyVI"}

(***************************************************************************)
(* C26.  For the void, alignment-marker and unexpected type tags,          *)
(* initWithRSRC reads no byte, does not fail and leaves the value None,    *)
(* and prepareRSRCData returns no bytes.  For ExtData, initWithRSRC and    *)
(* initWithXML both fail with NotImplementedError and read no byte.        *)
(***************************************************************************)
C26_Fallbacks ==
    /\ (df.tdType \in FallbackTypes /\ last.op = "initWithRSRC") =>
          /\ last.exc = ""
          /\ reader = Rd(startPos)
          /\ df.value = VNone
    /\ (df.tdType \in FallbackTypes /\ last.op = "prepareRSRCData") =>
          /\ last.exc = ""
          /\ last.data_buf = <<>>
    /\ (df.tdType = "ExtData" /\ last.op \in {"initWithRSRC", "initWithXML"}) =>
          /\ last.exc = "NotImplementedError"
          /\ reader = Rd(startPos)

C26_Witness ==
    /\ df.tdType = "AlignmntMarker"
    /\ last.op = "prepareRSRCData"
    /\ last.before.value = VNone
    /\ startPos = 1
    /\ bldata = <<1>>

(***************************************************************************)
(* SpecPath: path nodes filled from streams that hold a class identifier,  *)
(* or something else, at the offsets 0 to 3.                               *)
(***************************************************************************)
PathVersions == {<<8, 6, 0, 1>>, <<12, 0, 0, 1>>}
PathStarts == 0 .. 3
PathIdents == {PTH0, PTH1, PTH2, <<1, 2, 3, 3>>, <<0, 2, 3, 0>>, <<1, 2, 0>>, <<>>}
PathStreams ==
    {p \o c \o t : p \in {Zeros(n) : n \in PathStarts} \cup {PTH0, <<1, 1, 2>>},
                   c \in PathIdents, t \in {<<>>, <<0, 1>>}}

InitPath == InitAt(PathVersions)

NextPath ==
    \/ New(69, -1, 0)
    \/ \E data \in PathStreams, start \in PathStarts : InitWithRSRC(data, start)

SpecPath == InitPath /\ [][NextPath]_vars

\* The up to 4 bytes at the start of the value in the stream.
IdentAtStart == SubSeq(bldata, startPos + 1, Min(startPos + 4, Len(bldata)))

(***************************************************************************)
(* C27.  initWithRSRC of a path node reads the 4-byte class identifier and *)
(* puts the reader back: for PTH0 an LVPath0, for PTH1 and PTH2 an LVPath1 *)
(* is made, and its parseRSRCData starts at the position the value starts  *)
(* at; any other identifier raises RuntimeError and no path object parses. *)
(* The reader never ends before the position it started at.                *)
(***************************************************************************)
C27_PathPeek ==
    (df.cls = "DataFillPath" /\ last.op = "initWithRSRC") =>
        /\ IdentAtStart = PTH0 =>
              last.exc = "" /\ df.value.t = "LVPath0" /\ df.value.i = startPos
        /\ IdentAtStart \in {PTH1, PTH2} =>
              last.exc = "" /\ df.value.t = "LVPath1" /\ df.value.i = startPos
        /\ IdentAtStart \notin {PTH0, PTH1, PTH2} =>
              last.exc = "RuntimeError" /\ df.value = VNone
        /\ reader.pos >= startPos

C27_Witness ==
    /\ df.cls = "DataFillPath"
    /\ last.op = "initWithRSRC"
    /\ startPos = 3
    /\ df.value.t = "LVPath1"
    /\ df.value.b = PTH2
    /\ reader.pos = 7

(***************************************************************************)
(* SpecFixed: fixed-point and complex fixed-point nodes, with and without  *)
(* td.allocOv, filled from streams and from text, encoded and exported.    *)
(***************************************************************************)
FixedVersions == {<<12, 0, 0, 1>>}
FixedRoots == 70 .. 73
B8(v) == ToBytes(v, 8, FALSE)
FixedStreams ==
    {B8(a) \o <<f>> \o B8(b) \o <<2>> :
        a \in {0, 37, Radix ^ 8 - 1}, f \in {0, Radix - 1}, b \in {1, Radix ^ 8 - 1}}
    \cup {<<>>, <<1, 2, 3>>, B8(5)}
FixedParts ==
    {[Element(tag, <<"5">>, <<>>) EXCEPT !.Flags = f] :
        tag \in {"real", "imag"}, f \in {NoText, <<"0", "x", "0", "1">>}}
FixedElements ==
    {[Element("FixedPoint", t, <<>>) EXCEPT !.Flags = f] :
        t \in {NoText, <<"7">>, <<"0", "x", "1", "F">>},
        f \in {NoText, <<"0", "x", "0", "2">>, <<"2">>, <<"x">>}}
    \cup {Element("ComplexFixedPt", NoText, <<re, im>>) : re, im \in FixedParts}
    \cup {Element("ComplexFixedPt", NoText, <<re>>) : re \in FixedParts}

InitFixed == InitAt(FixedVersions)

NextFixed ==
    \/ \E td \in FixedRoots : New(td, -1, 0)
    \/ \E data \in FixedStreams : InitWithRSRC(data, 0)
    \/ InitWithRSRCAgain
    \/ \E a \in BOOLEAN : PrepareRSRCData(a)
    \/ ExpectedRSRCSize
    \/ ExportXML
    \/ \E e \in FixedElements : InitWithXML(e)
    \/ InitWithXMLAgain

SpecFixed == InitFixed /\ [][NextFixed]_vars

\* A fixed-point node has just been filled from a stream that held the whole
\* value.
FixedFilled ==
    /\ df.cls \in {"DataFillFixedPoint", "DataFillComplexFixedPt"}
    /\ last.op = "initWithRSRC"
    /\ last.exc = ""
    /\ ~reader.eof
\* The bytes of one fixed-point number: 8, and 1 more with td.allocOv.
FixedPartLen == IF TDs[df.td].allocOv THEN 9 ELSE 8
\* The value and the flags the stream holds at offset o.
FixedValueAt(o) == VInt(BigEndian(SubSeq(bldata, startPos + o + 1, startPos + o + 8)))
FixedFlagsAt(o) == IF TDs[df.td].allocOv THEN VInt(bldata[startPos + o + 9]) ELSE VNone
\* The filled node holds what the stream holds, in the claimed order.
FixedLayout ==
    IF df.cls = "DataFillFixedPoint"
    THEN /\ reader.pos - startPos = FixedPartLen
         /\ df.value = FixedValueAt(0)
         /\ df.vflags = FixedFlagsAt(0)
    ELSE /\ reader.pos - startPos = 2 * FixedPartLen
         /\ df.value = VPair(FixedValueAt(0), FixedValueAt(FixedPartLen))
         /\ df.vflags = VPair(FixedFlagsAt(0), FixedFlagsAt(FixedPartLen))
\* initWithXML of a new node of the element's tag restores the values and flags.
TextRestores(e) ==
    LET r == initWithXML(newDataFillObjectWithTag(e.tag).df, e)
    IN  r.exc = "" /\ r.df.value = df.value /\ r.df.vflags = df.vflags

(***************************************************************************)
(* C28.  A fixed-point value is an 8-byte unsigned number followed by one  *)
(* flag byte only with td.allocOv; a complex fixed-point value is two such *)
(* numbers, real then imaginary (16 or 18 bytes).  For a node filled by    *)
(* initWithRSRC, prepareRSRCData returns the bytes read, and exportXML     *)
(* followed by initWithXML succeeds and restores values and flags, with    *)
(* and without flag bytes.                                                 *)
(***************************************************************************)
C28_FixedPointRoundTrip ==
    [][FixedFilled =>
          /\ FixedLayout
          /\ last'.op = "prepareRSRCData" =>
                /\ last'.exc = ""
                /\ last'.data_buf = SubSeq(bldata, startPos + 1, reader.pos)
          /\ last'.op = "exportXML" =>
                /\ last'.exc = ""
                /\ TextRestores(elem')]_vars

(***************************************************************************)
(* SpecFlags: trees of composites, bound with one flag word, filled, and   *)
(* bound again with another.                                               *)
(***************************************************************************)
FlagVersions == {<<12, 0, 0, 3>>}
FlagRoots == {27, 32, 39, 56, 57, 58}
FlagTargets == FlagRoots \cup {54}
FlagWords == {0, 16}
RebindWords == {32, 64}

InitFlags == InitAt(FlagVersions)

NextFlags ==
    \/ \E td \in FlagRoots, f \in FlagWords : New(td, -1, f)
    \/ NewSpecial(56, -1, 16)
    \/ \E data \in Streams : InitWithRSRC(data, 0)
    \/ \E td \in FlagTargets, g \in RebindWords : SetTD(td, 3, g)

SpecFlags == InitFlags /\ [][NextFlags]_vars

RECURSIVE ReachedFlags(_, _)
\* The node n has the flag word f, and so has every node that the setTD of
\* n or of a descendant has bound: the children of arrays, clusters,
\* repeated blocks and type-defs.
ReachedFlags(n, f) ==
    /\ n.tm_flags = f
    /\ n.cls \in BindClasses =>
          \A k \in 1 .. Len(n.value.l) : ReachedFlags(n.value.l[k], f)

(***************************************************************************)
(* C29.  Every node of a tree that initWithRSRC has filled from a root     *)
(* bound with the flag word F has tm_flags = F, at any depth; a setTD with *)
(* flag word G that succeeds on a filled array, cluster, repeated block or *)
(* type-def leaves G in tm_flags of every descendant it has bound.         *)
(***************************************************************************)
C29_FlagPropagation ==
    /\ last.op = "initWithRSRC" =>
          /\ df.tm_flags = last.before.tm_flags
          /\ AllFlags(df, df.tm_flags)
    /\ (/\ last.op = "setTD"
        /\ last.exc = ""
        /\ df.cls \in BindClasses
        /\ Len(last.before.value.l) > 0) =>
          /\ df.tm_flags \in RebindWords
          /\ ReachedFlags(df, df.tm_flags)

C29_Witness ==
    /\ last.op = "setTD"
    /\ last.exc = ""
    /\ df.td = 27
    /\ Len(df.value.l) = 2
    /\ last.before.value.l[2].value.l[1].tm_flags = 16
    /\ df.value.l[2].value.l[1].tm_flags = 64

(***************************************************************************)
(* SpecLate: booleans and a cluster of booleans, made from descriptors and *)
(* from text, bound, late-bound, filled, encoded and sized in any order.   *)
(***************************************************************************)
LateVersions == {<<4, 0, 0, 0>>, <<12, 0, 0, 3>>}
LateRoots == {9, 10, 74}
LateStreams == {<<>>, <<1>>, <<0, 1>>, <<2, 1, 3>>}
LateElements ==
    {Element(tag, t, <<>>) : tag \in {"Boolean", "BooleanU16"},
                             t \in {NoText, <<"0">>, <<"1">>, <<"2", "5", "6">>, <<"-", "1">>}}
    \cup {Element("Cluster", NoText,
                  <<Element("Boolean", <<"1">>, <<>>), Element("BooleanU16", <<"0">>, <<>>)>>)}

InitLate == InitAt(LateVersions)

NextLate ==
    \/ \E td \in LateRoots : New(td, -1, 0)
    \/ \E data \in LateStreams : InitWithRSRC(data, 0)
    \/ InitWithRSRCAgain
    \/ \E a \in BOOLEAN : PrepareRSRCData(a)
    \/ ExpectedRSRCSize
    \/ \E e \in LateElements : InitWithXML(e)
    \/ InitWithXMLAgain
    \/ \E td \in LateRoots : SetTD(td, -1, 0)
    \/ InitWithXMLLate
    \/ ExportXML

SpecLate == InitLate /\ [][NextLate]_vars

\* The width of the boolean node n by type tag and file version.
WidthOf(n) ==
    IF n.tdType = "BooleanU16" THEN 2
    ELSE IF ver[1] > 4 \/ (ver[1] = 4 /\ ver[2] >= 5) THEN 1 ELSE 2
RECURSIVE BoolWidths(_)
\* The sizes of the boolean nodes from n down, in the shape of the tree.
BoolWidths(n) ==
    IF n.cls = "DataFillBool" THEN <<n.size>>
    ELSE IF n.value.t = "list" THEN [k \in 1 .. Len(n.value.l) |-> BoolWidths(n.value.l[k])]
    ELSE <<>>
RECURSIVE WidthsAre(_, _)
\* Every boolean node from n down has no size (set = FALSE), or the size of
\* its type tag and the file version (set = TRUE).
WidthsAre(n, set) ==
    /\ n.cls = "DataFillBool" => n.size = (IF set THEN WidthOf(n) ELSE None)
    /\ n.value.t = "list" => \A k \in 1 .. Len(n.value.l) : WidthsAre(n.value.l[k], set)
\* One step: the sizes of the booleans change only in initWithRSRC and
\* initWithXMLLate of the root, which set them all; the booleans of a tree
\* that another call has made have none.
WidthOrdering ==
    /\ last'.op \notin {"initWithRSRC", "initWithXMLLate"} =>
          (BoolWidths(df') = BoolWidths(df) \/ WidthsAre(df', FALSE))
    /\ (last'.op \in {"initWithRSRC", "initWithXMLLate"} /\ last'.exc = "") =>
          WidthsAre(df', TRUE)
\* A boolean without size: prepareRSRCData and expectedRSRCSize raise.
UnsetRaises ==
    (/\ df'.cls = "DataFillBool"
     /\ df'.size = None
     /\ last'.op \in {"prepareRSRCData", "expectedRSRCSize"}) => last'.exc # ""
\* A boolean with a size: it is the width of the tag and version, and
\* expectedRSRCSize returns it.
SetSizes ==
    (df'.cls = "DataFillBool" /\ df'.size # None) =>
        /\ df'.size = WidthOf(df')
        /\ last'.op = "expectedRSRCSize" =>
              (last'.exc = "" /\ last'.exp_whole_len = df'.size)
\* The boolean holds a number that its size can hold.
ValueFits == df'.value.t = "int" /\ FitsBytes(df'.value.i, df'.size, FALSE)

(***************************************************************************)
(* C30.  The size of a boolean node is None from construction until        *)
(* initWithRSRC or initWithXMLLate runs on it (in a composite: on the      *)
(* composite); initWithXML and setTD never set it.  Without a size         *)
(* prepareRSRCData and expectedRSRCSize raise; with one, expectedRSRCSize  *)
(* returns the width of type tag and file version, and prepareRSRCData     *)
(* returns that many bytes when the node holds a number that fits the      *)
(* width, and raises otherwise.                                            *)
(***************************************************************************)
C30_WidthOrderingFitting ==
    [][/\ WidthOrdering
       /\ UnsetRaises
       /\ SetSizes
       /\ (df'.cls = "DataFillBool" /\ df'.size # None /\ last'.op = "prepareRSRCData") =>
             IF ValueFits
             THEN last'.exc = "" /\ Len(last'.data_buf) = df'.size
             ELSE last'.exc # ""]_vars

\* C30 as stated: with a size, prepareRSRCData succeeds in every state.
C30_WidthOrdering ==
    [][/\ WidthOrdering
       /\ UnsetRaises
       /\ SetSizes
       /\ (df'.cls = "DataFillBool" /\ df'.size # None /\ last'.op = "prepareRSRCData") =>
             (last'.exc = "" /\ Len(last'.data_buf) = df'.size)]_vars

C30_Witness ==
    /\ df.cls = "DataFillBool"
    /\ elem = Element("Boolean", <<"1">>, <<>>)
    /\ bldata = <<>>
    /\ ~reader.eof
    /\ df.td = 9
    /\ df.size = 2
    /\ last.op = "prepareRSRCData"
    /\ last.data_buf = <<0, 1>>

====
